---------------------------- MODULE Spec2Model ----------------------------
(***************************************************************************)
(* A model of the layered file system of solution/src:                     *)
(*   a_block_support.rs   CustomBlockFileSystem  (superblock, bitmap)      *)
(*   b_inode_support.rs   CustomInodeFileSystem  (inode table)             *)
(*                                                                         *)
(* Scaling.  The device is an array of blocks, a block an array of cells.  *)
(* A cell is one byte.  Every u64 of the program is scaled to one cell:    *)
(* arithmetic on u64 is arithmetic modulo WORD = 2^BYTE_BITS, and a        *)
(* serialized integer field occupies one cell.  A serialized DInode is     *)
(* therefore 3 + NDIRECT cells (ft, nlink, size, direct_blocks) and a      *)
(* serialized SuperBlock 7 cells.  NDIRECT is 12 in the source; the model  *)
(* is parametric in it and is checked at the small value given below.      *)
(***************************************************************************)
EXTENDS Integers, Sequences, FiniteSets, TLC

VARIABLES
    device,           \* CustomBlockFileSystem.device: [block_size, nblocks, blocks]
    superblock,       \* CustomBlockFileSystem.superblock, the cached SuperBlock
    inode_start,      \* CustomInodeFileSystem.inode_start
    nb_inodes_block,  \* CustomInodeFileSystem.nb_inodes_block
    overflow_checks,  \* build profile: TRUE = arithmetic overflow panics (debug),
                      \*                FALSE = it wraps (release)
    res               \* the last call and what it returned

vars == <<device, superblock, inode_start, nb_inodes_block, overflow_checks, res>>

-----------------------------------------------------------------------------
(* Sizes *)

\* bits of a byte: the literal 8 of the bitmap arithmetic
BYTE_BITS == 8

\* length of DInode.direct_blocks ([0 as u64; 12] in the source), scaled
NDIRECT == 2

\* u64 values are scaled to one byte
WORD == 2 ^ BYTE_BITS

\* *DINODE_SIZE: serialized size of a DInode (ft, nlink, size, direct_blocks)
DINODE_SIZE == 3 + NDIRECT

\* serialized size of a SuperBlock: seven integer fields
SUPERBLOCK_SIZE == 7

-----------------------------------------------------------------------------
(* Machine arithmetic *)

Overflows(x) == x < 0 \/ x >= WORD

Wrap(x) == x % WORD

Pow2(z) == 2 ^ z

\* bit z of a byte, counted from the least significant bit:  byte & (1 << z)
Bit(byte, z) == (byte \div Pow2(z)) % 2

\* byte | (1 << z)
SetBit(byte, z) == IF Bit(byte, z) = 1 THEN byte ELSE byte + Pow2(z)

\* byte & !(1 << z)
ClearBit(byte, z) == IF Bit(byte, z) = 1 THEN byte - Pow2(z) ELSE byte

\* (a as f64 / b as f64).ceil(), exact for the magnitudes of the model
CeilDiv(a, b) == (a + b - 1) \div b

Min(S) == CHOOSE x \in S : \A y \in S : x <= y

-----------------------------------------------------------------------------
(* FileSysSupport::sb_valid *)

\* The conditions of sb_valid over the mathematical integers, in the order
\* the code evaluates them, and every intermediate value it computes.
SbIntermediates(sb) ==
    { DINODE_SIZE * sb.ninodes,
      sb.bmapstart - sb.inodestart,
      (sb.bmapstart - sb.inodestart) * sb.block_size,
      sb.datastart - sb.bmapstart,
      (sb.datastart - sb.bmapstart) * sb.block_size,
      (sb.datastart - sb.bmapstart) * sb.block_size * BYTE_BITS,
      sb.datastart + sb.ndatablocks,
      1 + (sb.bmapstart - sb.inodestart),
      1 + (sb.bmapstart - sb.inodestart) + (sb.datastart - sb.bmapstart),
      1 + (sb.bmapstart - sb.inodestart) + (sb.datastart - sb.bmapstart) + sb.ndatablocks }

\* "true", "false", or "panic" (an overflowing operation under overflow checks)
sb_valid(sb, oc) ==
    IF ~(sb.inodestart < sb.bmapstart) THEN "false"
    ELSE IF ~(sb.bmapstart < sb.datastart) THEN "false"
    ELSE IF oc /\ \E x \in SbIntermediates(sb) : Overflows(x) THEN "panic"
    ELSE
      LET order_cond3 == sb.inodestart > 0
          inode_cond  == Wrap(DINODE_SIZE * sb.ninodes)
                           <= Wrap((sb.bmapstart - sb.inodestart) * sb.block_size)
          hold_cond1  == Wrap(Wrap((sb.datastart - sb.bmapstart) * sb.block_size) * BYTE_BITS)
                           >= sb.ndatablocks
          hold_cond2  == Wrap(sb.datastart + sb.ndatablocks) <= sb.nblocks
          fit_cond1   == Wrap(Wrap(Wrap(1 + (sb.bmapstart - sb.inodestart))
                                     + (sb.datastart - sb.bmapstart)) + sb.ndatablocks)
                           <= sb.nblocks
      IN IF order_cond3 /\ hold_cond1 /\ hold_cond2 /\ inode_cond /\ fit_cond1
         THEN "true" ELSE "false"

-----------------------------------------------------------------------------
(* The device and the block primitives (cplfs_api: Device, Block).          *)
(* A block is a function from byte offsets 0..block_size-1 to bytes.        *)

\* Block::new_zero
ZeroBlock(block_size) == [o \in 0..(block_size - 1) |-> 0]

\* Device::new: nblocks zeroed blocks of block_size bytes
NewDevice(block_size, nblocks) ==
    [ block_size |-> block_size,
      nblocks    |-> nblocks,
      blocks     |-> [i \in 0..(nblocks - 1) |-> ZeroBlock(block_size)] ]

\* Device::read_block: fails for a block index outside the device
ReadOk(dev, i) == i >= 0 /\ i < dev.nblocks

\* Device::write_block
WriteBlock(dev, i, blk) == [dev EXCEPT !.blocks[i] = blk]

\* Block::write_data / Block::serialize_into: cells of blk from offset off on
\* are overwritten by the sequence cells; fails when they do not fit
FitsBlock(blk, off, len) == off + len <= Cardinality(DOMAIN blk)

WriteCells(blk, off, cells) ==
    [o \in DOMAIN blk |->
        IF o >= off /\ o < off + Len(cells) THEN cells[o - off + 1] ELSE blk[o]]

\* Block::read_data / Block::deserialize_from: len cells of blk from offset off
ReadCells(blk, off, len) == [k \in 1..len |-> blk[off + k - 1]]

\* serialization of a SuperBlock: its seven fields in declaration order
SerSuperBlock(sb) ==
    << sb.block_size, sb.nblocks, sb.ninodes, sb.inodestart,
       sb.ndatablocks, sb.bmapstart, sb.datastart >>

DeserSuperBlock(cells) ==
    [ block_size |-> cells[1], nblocks |-> cells[2], ninodes |-> cells[3],
      inodestart |-> cells[4], ndatablocks |-> cells[5], bmapstart |-> cells[6],
      datastart |-> cells[7] ]

-----------------------------------------------------------------------------
(* Results of calls.  Every operation is an operator from the state it      *)
(* reads to a record  [st, val, dev]:  st is "ok", the name of the error    *)
(* returned, or "panic"; val the value returned; dev the device after the   *)
(* call, with whatever the call wrote before it returned.                   *)

Ret(st, val, dev) == [st |-> st, val |-> val, dev |-> dev]

NoVal == 0 - 1

-----------------------------------------------------------------------------
(* BlockSupport for CustomBlockFileSystem *)

\* b_get that leaves the block it has read zeroed on the device
b_get_zeroing(dev, i) ==
    IF ReadOk(dev, i)
    THEN Ret("ok", dev.blocks[i],
             [dev EXCEPT !.blocks[i] = [c \in DOMAIN dev.blocks[i] |-> 0]])
    ELSE Ret("APIError", ZeroBlock(0), dev)

\* b_get: the block, or the device's error
b_get(dev, i) ==
    IF ReadOk(dev, i) THEN Ret("ok", dev.blocks[i], dev)
    ELSE Ret("APIError", ZeroBlock(0), dev)

\* b_put
b_put(dev, i, blk) ==
    IF ReadOk(dev, i) /\ DOMAIN blk = DOMAIN dev.blocks[i]
    THEN Ret("ok", NoVal, WriteBlock(dev, i, blk))
    ELSE Ret("APIError", NoVal, dev)

\* sup_get: the cached superblock
sup_get(sb) == sb

\* the comparison  i > ndatablocks - 1  of b_free, b_zero and b_alloc:
\* "panic" when the subtraction overflows under overflow checks
PastLast(i, count, oc) ==
    IF Overflows(count - 1) /\ oc THEN "panic"
    ELSE IF i > Wrap(count - 1) THEN "yes" ELSE "no"

\* b_zero that checks the index and writes nothing
b_zero_unwritten(dev, sb, oc, i) ==
    LET past == PastLast(i, sb.ndatablocks, oc)
    IN IF past = "panic" THEN Ret("panic", NoVal, dev)
       ELSE IF past = "yes" THEN Ret("DataIndexOutOfBounds", NoVal, dev)
       ELSE Ret("ok", NoVal, dev)

\* b_zero
b_zero(dev, sb, oc, i) ==
    LET past == PastLast(i, sb.ndatablocks, oc)
    IN IF past = "panic" THEN Ret("panic", NoVal, dev)
       ELSE IF past = "yes" THEN Ret("DataIndexOutOfBounds", NoVal, dev)
       ELSE b_put(dev, sb.datastart + i, ZeroBlock(sb.block_size))

\* b_free without the test for a bit that is already clear
b_free_unchecked(dev, sb, oc, i) ==
    LET past == PastLast(i, sb.ndatablocks, oc)
        bitmapblockcapacity == sb.block_size * BYTE_BITS
        block_offset == i \div bitmapblockcapacity
        got == b_get(dev, sb.bmapstart + block_offset)
        byte_offset == (i % bitmapblockcapacity) \div BYTE_BITS
        bit_offset == (i % bitmapblockcapacity) % BYTE_BITS
    IN IF past = "panic" THEN Ret("panic", NoVal, dev)
       ELSE IF past = "yes" THEN Ret("DataIndexOutOfBounds", NoVal, dev)
       ELSE IF got.st # "ok" THEN Ret(got.st, NoVal, dev)
       ELSE IF ~FitsBlock(got.val, byte_offset, 1) THEN Ret("APIError", NoVal, dev)
       ELSE b_put(dev, sb.bmapstart + block_offset,
                  WriteCells(got.val, byte_offset,
                             << ClearBit(got.val[byte_offset], bit_offset) >>))

\* b_free that counts the bits of a byte from the most significant one
b_free_msb_first(dev, sb, oc, i) ==
    LET past == PastLast(i, sb.ndatablocks, oc)
        bitmapblockcapacity == sb.block_size * BYTE_BITS
        block_offset == i \div bitmapblockcapacity
        got == b_get(dev, sb.bmapstart + block_offset)
        byte_offset == (i % bitmapblockcapacity) \div BYTE_BITS
        bit_offset == (BYTE_BITS - 1) - ((i % bitmapblockcapacity) % BYTE_BITS)
    IN IF past = "panic" THEN Ret("panic", NoVal, dev)
       ELSE IF past = "yes" THEN Ret("DataIndexOutOfBounds", NoVal, dev)
       ELSE IF got.st # "ok" THEN Ret(got.st, NoVal, dev)
       ELSE IF ~FitsBlock(got.val, byte_offset, 1) THEN Ret("APIError", NoVal, dev)
       ELSE IF Bit(got.val[byte_offset], bit_offset) = 0
            THEN Ret("BlockIsAlreadyFree", NoVal, dev)
       ELSE b_put(dev, sb.bmapstart + block_offset,
                  WriteCells(got.val, byte_offset,
                             << ClearBit(got.val[byte_offset], bit_offset) >>))

\* b_free
b_free(dev, sb, oc, i) ==
    LET past == PastLast(i, sb.ndatablocks, oc)
        bitmapblockcapacity == sb.block_size * BYTE_BITS
        block_offset == i \div bitmapblockcapacity
        got == b_get(dev, sb.bmapstart + block_offset)
        byte_offset == (i % bitmapblockcapacity) \div BYTE_BITS
        bit_offset == (i % bitmapblockcapacity) % BYTE_BITS
    IN IF past = "panic" THEN Ret("panic", NoVal, dev)
       ELSE IF past = "yes" THEN Ret("DataIndexOutOfBounds", NoVal, dev)
       ELSE IF got.st # "ok" THEN Ret(got.st, NoVal, dev)
       ELSE IF ~FitsBlock(got.val, byte_offset, 1) THEN Ret("APIError", NoVal, dev)
       ELSE IF Bit(got.val[byte_offset], bit_offset) = 0
            THEN Ret("BlockIsAlreadyFree", NoVal, dev)
       ELSE b_put(dev, sb.bmapstart + block_offset,
                  WriteCells(got.val, byte_offset,
                             << ClearBit(got.val[byte_offset], bit_offset) >>))

\* b_alloc, from the bit with linear position k on: bitmap block x, byte y,
\* bit z in the order of the three nested loops
RECURSIVE b_alloc_from(_, _, _, _)
b_alloc_from(dev, sb, oc, k) ==
    LET nbbitmapblocks == sb.datastart - sb.bmapstart
        percap == sb.block_size * BYTE_BITS
        x == k \div percap
        y == (k % percap) \div BYTE_BITS
        z == k % BYTE_BITS
        got == b_get(dev, sb.bmapstart + x)
    IN IF k >= nbbitmapblocks * percap THEN Ret("NoFreeDataBlock", NoVal, dev)
       ELSE IF got.st # "ok" THEN Ret(got.st, NoVal, dev)
       ELSE IF ~FitsBlock(got.val, y, 1) THEN Ret("APIError", NoVal, dev)
       ELSE IF Bit(got.val[y], z) = 1 THEN b_alloc_from(dev, sb, oc, k + 1)
       ELSE
         LET index == (x * sb.block_size * BYTE_BITS) + (y * BYTE_BITS) + z
             past == PastLast(index, sb.ndatablocks, oc)
             put == b_put(dev, sb.bmapstart + x,
                          WriteCells(got.val, y, << SetBit(got.val[y], z) >>))
             zeroed == b_zero(put.dev, sb, oc, index)
         IN IF past = "panic" THEN Ret("panic", NoVal, dev)
            ELSE IF past = "yes" THEN Ret("NoFreeDataBlock", NoVal, dev)
            ELSE IF put.st # "ok" THEN Ret(put.st, NoVal, put.dev)
            ELSE IF zeroed.st # "ok" THEN Ret(zeroed.st, NoVal, zeroed.dev)
            ELSE Ret("ok", index, zeroed.dev)

b_alloc(dev, sb, oc) == b_alloc_from(dev, sb, oc, 0)

\* FileSysSupport::mkfs of the block layer: the device after it, given that
\* sb_valid accepted sb
block_mkfs(sb) ==
    LET fresh == NewDevice(sb.block_size, sb.nblocks)
        got == b_get(fresh, 0)
    IN IF got.st # "ok" THEN Ret(got.st, NoVal, fresh)
       ELSE IF ~FitsBlock(got.val, 0, SUPERBLOCK_SIZE) THEN Ret("APIError", NoVal, fresh)
       ELSE b_put(fresh, 0, WriteCells(got.val, 0, SerSuperBlock(sb)))

\* mkfs that stores no superblock
mkfs_unwritten(sb, oc) ==
    LET sb_cond == sb_valid(sb, oc)
    IN IF sb_cond = "panic" THEN Ret("panic", NoVal, NewDevice(0, 0))
       ELSE IF sb_cond = "false" THEN Ret("InvalidSuperBlock", NoVal, NewDevice(0, 0))
       ELSE Ret("ok", NoVal, NewDevice(sb.block_size, sb.nblocks))

\* FileSysSupport::mkfs of the block layer, with its validation of sb
mkfs(sb, oc) ==
    LET sb_cond == sb_valid(sb, oc)
    IN IF sb_cond = "panic" THEN Ret("panic", NoVal, NewDevice(0, 0))
       ELSE IF sb_cond = "false" THEN Ret("InvalidSuperBlock", NoVal, NewDevice(0, 0))
       ELSE block_mkfs(sb)

\* mountfs that compares the geometry before it validates
mountfs_geometry_first(dev, oc) ==
    LET superblock_read == DeserSuperBlock(ReadCells(dev.blocks[0], 0, SUPERBLOCK_SIZE))
        valid == sb_valid(superblock_read, oc)
    IN IF ~ReadOk(dev, 0) THEN Ret("APIError", NoVal, dev)
       ELSE IF ~FitsBlock(dev.blocks[0], 0, SUPERBLOCK_SIZE) THEN Ret("APIError", NoVal, dev)
       ELSE IF ~( /\ dev.block_size = superblock_read.block_size
                  /\ dev.nblocks = superblock_read.nblocks )
            THEN Ret("IncompatibleDeviceSuperBlock", NoVal, dev)
       ELSE IF valid = "panic" THEN Ret("panic", NoVal, dev)
       ELSE IF valid = "true" THEN Ret("ok", superblock_read, dev)
       ELSE Ret("InvalidSuperBlock", NoVal, dev)

\* FileSysSupport::mountfs; val is the superblock the file system caches
mountfs(dev, oc) ==
    LET superblock_read == DeserSuperBlock(ReadCells(dev.blocks[0], 0, SUPERBLOCK_SIZE))
        valid == sb_valid(superblock_read, oc)
    IN IF ~ReadOk(dev, 0) THEN Ret("APIError", NoVal, dev)
       ELSE IF ~FitsBlock(dev.blocks[0], 0, SUPERBLOCK_SIZE) THEN Ret("APIError", NoVal, dev)
       ELSE IF valid = "panic" THEN Ret("panic", NoVal, dev)
       ELSE IF valid = "true"
            THEN IF /\ dev.block_size = superblock_read.block_size
                    /\ dev.nblocks = superblock_read.nblocks
                 THEN Ret("ok", superblock_read, dev)
                 ELSE Ret("IncompatibleDeviceSuperBlock", NoVal, dev)
       ELSE Ret("InvalidSuperBlock", NoVal, dev)

\* sup_put that replaces the cached superblock and writes nothing
sup_put_cached(dev, sup) ==
    LET got == b_get(dev, 0)
    IN IF got.st # "ok" THEN Ret(got.st, NoVal, dev)
       ELSE Ret("ok", NoVal, dev)

\* sup_put; the cached superblock becomes sup when it returns Ok
sup_put(dev, sup) ==
    LET got == b_get(dev, 0)
    IN IF got.st # "ok" THEN Ret(got.st, NoVal, dev)
       ELSE IF ~FitsBlock(got.val, 0, SUPERBLOCK_SIZE) THEN Ret("APIError", NoVal, dev)
       ELSE b_put(dev, 0, WriteCells(got.val, 0, SerSuperBlock(sup)))

-----------------------------------------------------------------------------
(* DInode and its serialization (cplfs_api::types).  The file type is       *)
(* written as its variant index; the variant of an all-zero DInode is not   *)
(* TFree, which is why mkfs writes every inode.                             *)

FTypes == <<"TDir", "TFile", "TFree">>

FtTag(ft) == CHOOSE t \in 0..2 : FTypes[t + 1] = ft

\* direct_blocks from a sequence of entries, padded with zeros
DirectBlocks(entries) ==
    [k \in 0..(NDIRECT - 1) |-> IF k + 1 <= Len(entries) THEN entries[k + 1] ELSE 0]

DInode(ft, nlink, size, direct_blocks) ==
    [ft |-> ft, nlink |-> nlink, size |-> size, direct_blocks |-> direct_blocks]

\* DInode::default()
DefaultDInode == DInode("TFree", 0, 0, DirectBlocks(<<>>))

\* Inode::new(inum, disk_node)
Inode(inum, d) ==
    [inum |-> inum, ft |-> d.ft, nlink |-> d.nlink, size |-> d.size,
     direct_blocks |-> d.direct_blocks]

SerDInode(d) ==
    << FtTag(d.ft), d.nlink, d.size >> \o [k \in 1..NDIRECT |-> d.direct_blocks[k - 1]]

\* deserialization fails on a variant index that names no file type
DeserOk(cells) == cells[1] \in 0..2

DeserDInode(cells) ==
    DInode(FTypes[cells[1] + 1], cells[2], cells[3],
           [k \in 0..(NDIRECT - 1) |-> cells[4 + k]])

-----------------------------------------------------------------------------
(* InodeSupport for CustomInodeFileSystem.  is and nib are the layer's      *)
(* inode_start and nb_inodes_block.                                         *)

\* the inner loop of mkfs: the slots y, y+1, ... of one inode block
RECURSIVE mkfs_slots(_, _, _, _, _)
mkfs_slots(blk, sb, nib, block_stop, y) ==
    IF y >= nib \/ y + block_stop > sb.ninodes THEN blk
    ELSE mkfs_slots(WriteCells(blk, y * DINODE_SIZE, SerDInode(DefaultDInode)),
                    sb, nib, block_stop, y + 1)

\* the outer loop of mkfs: the inode blocks x, x+1, ...
RECURSIVE mkfs_blocks(_, _, _, _)
mkfs_blocks(dev, sb, nib, x) ==
    IF x >= sb.bmapstart - sb.inodestart \/ x * nib > sb.ninodes
    THEN Ret("ok", NoVal, dev)
    ELSE IF ~ReadOk(dev, sb.inodestart + x) THEN Ret("APIError", NoVal, dev)
    ELSE mkfs_blocks(WriteBlock(dev, sb.inodestart + x,
                                mkfs_slots(dev.blocks[sb.inodestart + x], sb, nib,
                                           x * nib, 0)),
                     sb, nib, x + 1)

\* FileSysSupport::mkfs of the inode layer
inode_mkfs(sb) ==
    LET made == block_mkfs(sb)
    IN IF made.st # "ok" THEN made
       ELSE mkfs_blocks(made.dev, sb, sb.block_size \div DINODE_SIZE, 0)

\* i_get
i_get(dev, sb, is, nib, oc, i) ==
    LET past == PastLast(i, sb.ninodes, oc)
        required_block == i \div nib
        got == b_get(dev, is + required_block)
        offset == (i % nib) * DINODE_SIZE
    IN IF past = "panic" THEN Ret("panic", NoVal, dev)
       ELSE IF past = "yes" THEN Ret("InodeIndexOutOfBounds", NoVal, dev)
       ELSE IF nib = 0 THEN Ret("panic", NoVal, dev)
       ELSE IF got.st # "ok" THEN Ret(got.st, NoVal, dev)
       ELSE IF ~FitsBlock(got.val, offset, DINODE_SIZE) THEN Ret("APIError", NoVal, dev)
       ELSE IF ~DeserOk(ReadCells(got.val, offset, DINODE_SIZE))
            THEN Ret("APIError", NoVal, dev)
       ELSE Ret("ok", Inode(i, DeserDInode(ReadCells(got.val, offset, DINODE_SIZE))), dev)

\* i_put that takes the slot of the inode from its block number
i_put_slot_of_block(dev, is, nib, ino) ==
    LET block_nb == ino.inum \div nib
        got == b_get(dev, is + block_nb)
        offset == (ino.inum \div nib) * DINODE_SIZE
    IN IF nib = 0 THEN Ret("panic", NoVal, dev)
       ELSE IF got.st # "ok" THEN Ret(got.st, NoVal, dev)
       ELSE IF ~FitsBlock(got.val, offset, DINODE_SIZE) THEN Ret("APIError", NoVal, dev)
       ELSE b_put(dev, is + block_nb, WriteCells(got.val, offset, SerDInode(ino)))

\* i_put
i_put(dev, is, nib, ino) ==
    LET block_nb == ino.inum \div nib
        got == b_get(dev, is + block_nb)
        offset == (ino.inum % nib) * DINODE_SIZE
    IN IF nib = 0 THEN Ret("panic", NoVal, dev)
       ELSE IF got.st # "ok" THEN Ret(got.st, NoVal, dev)
       ELSE IF ~FitsBlock(got.val, offset, DINODE_SIZE) THEN Ret("APIError", NoVal, dev)
       ELSE b_put(dev, is + block_nb, WriteCells(got.val, offset, SerDInode(ino)))

\* the loop of i_free and i_trunc over file_blocks[index], index < count:
\* b_free(element - datastart) for every non-zero element
RECURSIVE free_blocks(_, _, _, _, _, _)
free_blocks(dev, sb, oc, file_blocks, count, index) ==
    IF index >= count THEN Ret("ok", NoVal, dev)
    ELSE IF index >= NDIRECT THEN Ret("panic", NoVal, dev)
    ELSE IF file_blocks[index] = 0
         THEN free_blocks(dev, sb, oc, file_blocks, count, index + 1)
    ELSE IF Overflows(file_blocks[index] - sb.datastart) /\ oc
         THEN Ret("panic", NoVal, dev)
    ELSE LET freed == b_free(dev, sb, oc, Wrap(file_blocks[index] - sb.datastart))
         IN IF freed.st # "ok" THEN freed
            ELSE free_blocks(freed.dev, sb, oc, file_blocks, count, index + 1)

\* i_free
i_free(dev, sb, is, nib, oc, i) ==
    LET past == PastLast(i, sb.ninodes, oc)
        got == i_get(dev, sb, is, nib, oc, i)
        inode == got.val
        nb_selected_blocks == CeilDiv(inode.size, sb.block_size)
        freed == free_blocks(dev, sb, oc, inode.direct_blocks, nb_selected_blocks, 0)
    IN IF past = "panic" THEN Ret("panic", NoVal, dev)
       ELSE IF past = "yes" THEN Ret("InodeIndexOutOfBounds", NoVal, dev)
       ELSE IF got.st # "ok" THEN Ret(got.st, NoVal, dev)
       ELSE IF inode.ft = "TFree" THEN Ret("InodeAlreadyFree", NoVal, dev)
       ELSE IF inode.nlink # 0 THEN Ret("ok", NoVal, dev)
       ELSE IF freed.st # "ok" THEN freed
       ELSE i_put(freed.dev, is, nib,
                  [inode EXCEPT !.ft = "TFree", !.direct_blocks = DirectBlocks(<<>>)])

\* i_alloc, from inode y on
RECURSIVE i_alloc_from(_, _, _, _, _, _, _)
i_alloc_from(dev, sb, is, nib, oc, ft, y) ==
    LET got == i_get(dev, sb, is, nib, oc, y)
        put == i_put(dev, is, nib, [got.val EXCEPT !.ft = ft, !.size = 0, !.nlink = 0])
    IN IF y >= sb.ninodes THEN Ret("NoFreeInode", NoVal, dev)
       ELSE IF got.st # "ok" THEN Ret(got.st, NoVal, dev)
       ELSE IF got.val.ft # "TFree" THEN i_alloc_from(dev, sb, is, nib, oc, ft, y + 1)
       ELSE IF put.st # "ok" THEN put
       ELSE Ret("ok", y, put.dev)

\* i_alloc: inode 0 is never allocated
i_alloc(dev, sb, is, nib, oc, ft) == i_alloc_from(dev, sb, is, nib, oc, ft, 1)

\* i_trunc; val is the caller's inode after the call
i_trunc(dev, sb, is, nib, oc, inode) ==
    LET selected_blocks == CeilDiv(inode.size, sb.block_size)
        freed == free_blocks(dev, sb, oc, inode.direct_blocks, selected_blocks, 0)
        emptied == [inode EXCEPT !.size = 0, !.direct_blocks = DirectBlocks(<<>>)]
        put == i_put(freed.dev, is, nib, emptied)
    IN IF freed.st # "ok" THEN Ret(freed.st, inode, freed.dev)
       ELSE Ret(put.st, emptied, put.dev)

-----------------------------------------------------------------------------
(* Directory entries (cplfs_api: DirEntry).  A name is a sequence of        *)
(* characters; a character is stored as its place in Chars, NUL as 0.  A    *)
(* serialized DirEntry is its inum followed by the DIRNAME_SIZE characters  *)
(* of its name.                                                             *)

DIRNAME_SIZE == 2

DIRENTRY_SIZE == 1 + DIRNAME_SIZE

\* the characters of the names: two alphanumeric ones, the dot, one that is
\* neither, and "U", an alphanumeric character of two bytes in UTF-8
Chars == <<"a", "b", ".", "-", "U">>

CharCode(c) == CHOOSE n \in 1..Len(Chars) : Chars[n] = c

is_alphanumeric(c) == c \in {"a", "b", "U"}

\* str::len: the number of bytes of the name in UTF-8
RECURSIVE len(_)
len(name) ==
    IF name = <<>> THEN 0
    ELSE (IF Head(name) = "U" THEN 2 ELSE 1) + len(Tail(name))

\* a DirEntry: inum and the array of DIRNAME_SIZE character codes
DirEntry(inum, name) == [inum |-> inum, name |-> name]

DefaultDirEntry == DirEntry(0, [k \in 1..DIRNAME_SIZE |-> 0])

SerDirEntry(de) == <<de.inum>> \o de.name

DeserDirEntry(cells) == DirEntry(cells[1], [k \in 1..DIRNAME_SIZE |-> cells[1 + k]])

\* set_name_str refusing the names of DIRNAME_SIZE bytes as well
NameAccepted_short(name) ==
    LET empty_cond == name = <<>>
        point_cond == ~ ( \/ name = <<".">>
                          \/ name = <<".", ".">>
                          \/ \A k \in 1..Len(name) : is_alphanumeric(name[k]) )
        length_cond == len(name) >= DIRNAME_SIZE
    IN ~(empty_cond \/ point_cond \/ length_cond)

\* the condition under which set_name_str stores the name
NameAccepted(name) ==
    LET empty_cond == name = <<>>
        point_cond == ~ ( \/ name = <<".">>
                          \/ name = <<".", ".">>
                          \/ \A k \in 1..Len(name) : is_alphanumeric(name[k]) )
        length_cond == len(name) > DIRNAME_SIZE
    IN ~(empty_cond \/ point_cond \/ length_cond)

\* what set_name_str returns: Some(()) or None
set_name_str_returns(name) == IF NameAccepted(name) THEN "Some" ELSE "None"

\* set_name_str: de with the characters of name, NUL-padded; de itself
\* when the name is refused
set_name_str(de, name) ==
    IF ~NameAccepted(name) THEN de
    ELSE [de EXCEPT !.name = [k \in 1..DIRNAME_SIZE |->
                                IF k <= Len(name) THEN CharCode(name[k]) ELSE 0]]

\* new_de; defined when NameAccepted(name)
new_de(inum, name) == set_name_str([DefaultDirEntry EXCEPT !.inum = inum], name)

\* what new_de returns: Some(dir_entry) or None, as set_name_str does
new_de_returns(inum, name) == set_name_str_returns(name)

\* get_name_str: the characters before the first NUL
RECURSIVE name_from(_, _)
name_from(array, i) ==
    IF i > DIRNAME_SIZE THEN <<>>
    ELSE IF array[i] = 0 THEN <<>>
    ELSE <<array[i]>> \o name_from(array, i + 1)

get_name_str(de) == name_from(de.name, 1)

\* the character codes of a name, as get_name_str returns them
Codes(name) == [k \in 1..Len(name) |-> CharCode(name[k])]

-----------------------------------------------------------------------------
(* The directory layer (c_dirs_support.rs) *)

\* FileSysSupport::mkfs of the directory layer
dir_mkfs(sb, oc) ==
    LET made == inode_mkfs(sb)
        nib == sb.block_size \div DINODE_SIZE
        got == i_get(made.dev, sb, sb.inodestart, nib, oc, 1)
        root_inode == [got.val EXCEPT !.nlink = 1, !.ft = "TDir"]
    IN IF made.st # "ok" THEN made
       ELSE IF got.st # "ok" THEN Ret(got.st, NoVal, made.dev)
       ELSE i_put(made.dev, sb.inodestart, nib, root_inode)

\* the inner loop of dirlookup over the slots of block, from slot k on;
\* st is "next" when the loop ends without a match
RECURSIVE lookup_slots(_, _, _, _, _, _, _, _, _, _)
lookup_slots(dev, sb, is, nib, oc, inode, name, index, block, k) ==
    LET offset == k * DIRENTRY_SIZE
        dir_entry == DeserDirEntry(ReadCells(block, offset, DIRENTRY_SIZE))
        found == i_get(dev, sb, is, nib, oc, dir_entry.inum)
    IN IF k >= sb.block_size \div DIRENTRY_SIZE THEN Ret("next", NoVal, dev)
       ELSE IF ~FitsBlock(block, offset, DIRENTRY_SIZE) THEN Ret("APIError", NoVal, dev)
       ELSE IF dir_entry.inum # 0 /\ get_name_str(dir_entry) = Codes(name)
            THEN IF found.st # "ok" THEN Ret(found.st, NoVal, dev)
                 ELSE Ret("ok", [inode |-> found.val,
                                 off |-> sb.block_size * index + offset], dev)
       ELSE IF offset + DIRENTRY_SIZE >= inode.size THEN Ret("next", NoVal, dev)
       ELSE lookup_slots(dev, sb, is, nib, oc, inode, name, index, block, k + 1)

\* the outer loop of dirlookup, from block index on
RECURSIVE lookup_blocks(_, _, _, _, _, _, _, _)
lookup_blocks(dev, sb, is, nib, oc, inode, name, index) ==
    LET element == inode.direct_blocks[index]
        got == b_get(dev, element)
        scanned == lookup_slots(dev, sb, is, nib, oc, inode, name, index, got.val, 0)
    IN IF index >= CeilDiv(inode.size, sb.block_size)
       THEN Ret("NoEntryFoundForName", NoVal, dev)
       ELSE IF index >= NDIRECT THEN Ret("panic", NoVal, dev)
       ELSE IF element = 0
            THEN lookup_blocks(dev, sb, is, nib, oc, inode, name, index + 1)
       ELSE IF got.st # "ok" THEN Ret(got.st, NoVal, dev)
       ELSE IF scanned.st # "next" THEN scanned
       ELSE lookup_blocks(dev, sb, is, nib, oc, inode, name, index + 1)

\* dirlookup; val is the inode found and the offset of its entry
dirlookup(dev, sb, is, nib, oc, inode, name) ==
    IF inode.ft # "TDir" THEN Ret("InodeWrongType", NoVal, dev)
    ELSE lookup_blocks(dev, sb, is, nib, oc, inode, name, 0)

\* what dirlink returns: val is the caller's directory inode after the
\* call and the offset returned
Linked(st, inode, off, dev) == Ret(st, [inode |-> inode, off |-> off], dev)

\* count_link that counts a link of the directory to itself as well
count_link_self(dev, is, nib, oc, inode, corresponding_inode, inum, off) ==
    LET put == i_put(dev, is, nib,
                     [corresponding_inode EXCEPT !.nlink = Wrap(@ + 1)])
    IN IF put.st # "ok" THEN Linked(put.st, inode, NoVal, put.dev)
       ELSE Linked("ok", inode, off, put.dev)

\* the end of a successful dirlink: the link count of the inode linked,
\* unless it is the directory itself
count_link(dev, is, nib, oc, inode, corresponding_inode, inum, off) ==
    LET put == i_put(dev, is, nib,
                     [corresponding_inode EXCEPT !.nlink = Wrap(@ + 1)])
    IN IF inode.inum = inum THEN Linked("ok", inode, off, dev)
       ELSE IF oc /\ Overflows(corresponding_inode.nlink + 1)
            THEN Linked("panic", inode, NoVal, dev)
       ELSE IF put.st # "ok" THEN Linked(put.st, inode, NoVal, put.dev)
       ELSE Linked("ok", inode, off, put.dev)

\* the inner loop of dirlink over the slots of block (the copy read before
\* the loop), from slot k on; st is "next" when the loop ends
RECURSIVE link_slots(_, _, _, _, _, _, _, _, _, _, _, _, _)
link_slots(dev, sb, is, nib, oc, inode, new_dir_entry, corresponding_inode, inum, index, element, block, k) ==
    LET offset == k * DIRENTRY_SIZE
        dir_entry == DeserDirEntry(ReadCells(block, offset, DIRENTRY_SIZE))
        slot_end == sb.block_size * index + offset + DIRENTRY_SIZE
        grows == slot_end >= inode.size
        grown == IF grows THEN [inode EXCEPT !.size = slot_end] ELSE inode
        put == IF grows THEN i_put(dev, is, nib, grown) ELSE Ret("ok", NoVal, dev)
        written == b_put(put.dev, element,
                         WriteCells(block, offset, SerDirEntry(new_dir_entry)))
    IN IF k >= sb.block_size \div DIRENTRY_SIZE THEN Linked("next", inode, NoVal, dev)
       ELSE IF ~FitsBlock(block, offset, DIRENTRY_SIZE)
            THEN Linked("APIError", inode, NoVal, dev)
       ELSE IF ~(dir_entry.inum = 0 \/ grows)
            THEN link_slots(dev, sb, is, nib, oc, inode, new_dir_entry,
                            corresponding_inode, inum, index, element, block, k + 1)
       ELSE IF put.st # "ok" THEN Linked(put.st, grown, NoVal, put.dev)
       ELSE IF dir_entry.inum # 0
            THEN link_slots(put.dev, sb, is, nib, oc, grown, new_dir_entry,
                            corresponding_inode, inum, index, element, block, k + 1)
       ELSE IF written.st # "ok" THEN Linked(written.st, grown, NoVal, written.dev)
       ELSE count_link(written.dev, is, nib, oc, grown, corresponding_inode, inum,
                       sb.block_size * index + offset)

\* the outer loop of dirlink over the first nb_selected_blocks blocks of the
\* directory, from block index on
RECURSIVE link_blocks(_, _, _, _, _, _, _, _, _, _, _)
link_blocks(dev, sb, is, nib, oc, inode, new_dir_entry, corresponding_inode, inum, nb_selected_blocks, index) ==
    LET element == inode.direct_blocks[index]
        got == b_get(dev, element)
        scanned == link_slots(dev, sb, is, nib, oc, inode, new_dir_entry,
                              corresponding_inode, inum, index, element, got.val, 0)
    IN IF index >= nb_selected_blocks THEN Linked("next", inode, NoVal, dev)
       ELSE IF index >= NDIRECT THEN Linked("panic", inode, NoVal, dev)
       ELSE IF element = 0
            THEN link_blocks(dev, sb, is, nib, oc, inode, new_dir_entry,
                             corresponding_inode, inum, nb_selected_blocks, index + 1)
       ELSE IF got.st # "ok" THEN Linked(got.st, inode, NoVal, dev)
       ELSE IF scanned.st # "next" THEN scanned
       ELSE link_blocks(scanned.dev, sb, is, nib, oc, scanned.val.inode, new_dir_entry,
                        corresponding_inode, inum, nb_selected_blocks, index + 1)

\* the end of dirlink: the entry goes to offset 0 of a newly allocated block
link_new_block(dev, sb, is, nib, oc, inode, new_dir_entry, corresponding_inode, inum, nb_selected_blocks) ==
    LET alloc == b_alloc(dev, sb, oc)
        new_block_index == sb.datastart + alloc.val
        got == b_get(alloc.dev, new_block_index)
        new_block == WriteCells(got.val, 0, SerDirEntry(new_dir_entry))
        grown == [inode EXCEPT !.size = sb.block_size * nb_selected_blocks + DIRENTRY_SIZE,
                               !.direct_blocks[nb_selected_blocks] = new_block_index]
        put == i_put(alloc.dev, is, nib, grown)
        written == b_put(put.dev, new_block_index, new_block)
    IN IF nb_selected_blocks = NDIRECT THEN Linked("InodeBlocksFull", inode, NoVal, dev)
       ELSE IF alloc.st # "ok" THEN Linked(alloc.st, inode, NoVal, alloc.dev)
       ELSE IF got.st # "ok" THEN Linked(got.st, inode, NoVal, alloc.dev)
       ELSE IF ~FitsBlock(got.val, 0, DIRENTRY_SIZE)
            THEN Linked("APIError", inode, NoVal, alloc.dev)
       ELSE IF put.st # "ok" THEN Linked(put.st, grown, NoVal, put.dev)
       ELSE IF written.st # "ok" THEN Linked(written.st, grown, NoVal, written.dev)
       ELSE count_link(written.dev, is, nib, oc, grown, corresponding_inode, inum,
                       sb.block_size * nb_selected_blocks)

\* dirlink without the scan for an empty slot: every entry goes to a new block
dirlink_unscanned(dev, sb, is, nib, oc, inode, name, inum) ==
    LET got == i_get(dev, sb, is, nib, oc, inum)
        corresponding_inode == got.val
        new_dir_entry == new_de(inum, name)
        present == dirlookup(dev, sb, is, nib, oc, inode, name)
        nb_selected_blocks == CeilDiv(inode.size, sb.block_size)
    IN IF inode.ft # "TDir" THEN Linked("InodeWrongType", inode, NoVal, dev)
       ELSE IF got.st # "ok" THEN Linked(got.st, inode, NoVal, dev)
       ELSE IF corresponding_inode.ft = "TFree"
            THEN Linked("DirectoryInodeNotInUse", inode, NoVal, dev)
       ELSE IF ~NameAccepted(name) THEN Linked("InvalidEntryName", inode, NoVal, dev)
       ELSE IF present.st = "ok" THEN Linked("InvalidEntryName", inode, NoVal, dev)
       ELSE IF present.st = "panic" THEN Linked("panic", inode, NoVal, dev)
       ELSE link_new_block(dev, sb, is, nib, oc, inode, new_dir_entry,
                           corresponding_inode, inum, nb_selected_blocks)

\* dirlink
dirlink(dev, sb, is, nib, oc, inode, name, inum) ==
    LET got == i_get(dev, sb, is, nib, oc, inum)
        corresponding_inode == got.val
        new_dir_entry == new_de(inum, name)
        present == dirlookup(dev, sb, is, nib, oc, inode, name)
        nb_selected_blocks == CeilDiv(inode.size, sb.block_size)
        scanned == link_blocks(dev, sb, is, nib, oc, inode, new_dir_entry,
                               corresponding_inode, inum, nb_selected_blocks, 0)
    IN IF inode.ft # "TDir" THEN Linked("InodeWrongType", inode, NoVal, dev)
       ELSE IF got.st # "ok" THEN Linked(got.st, inode, NoVal, dev)
       ELSE IF corresponding_inode.ft = "TFree"
            THEN Linked("DirectoryInodeNotInUse", inode, NoVal, dev)
       ELSE IF ~NameAccepted(name) THEN Linked("InvalidEntryName", inode, NoVal, dev)
       ELSE IF present.st = "ok" THEN Linked("InvalidEntryName", inode, NoVal, dev)
       ELSE IF present.st = "panic" THEN Linked("panic", inode, NoVal, dev)
       ELSE IF scanned.st # "next" THEN scanned
       ELSE link_new_block(scanned.dev, sb, is, nib, oc, scanned.val.inode,
                           new_dir_entry, corresponding_inode, inum, nb_selected_blocks)

-----------------------------------------------------------------------------
(* The inode read/write layer (e_inode_RW_support.rs).  A Buffer          *)
(* (cplfs_api) is a sequence of bytes; its write_data and read_data fail  *)
(* past its end, write_data with the error that i_read matches.           *)

\* Buffer::write_data / read_data of one byte at offset off succeeds
BufferFits(buf, off) == off + 1 <= Len(buf)

Transfer(st, buf, buf_offset) == [st |-> st, buf |-> buf, buf_offset |-> buf_offset]

\* the inner loop of i_read over the bytes of block, from byte_index on
RECURSIVE read_bytes(_, _, _, _, _, _, _, _, _)
read_bytes(sb, inode, block, index, off, n, buf, buf_offset, byte_index) ==
    IF byte_index >= sb.block_size THEN Transfer("ok", buf, buf_offset)
    ELSE IF buf_offset >= n \/ buf_offset >= inode.size THEN Transfer("ok", buf, buf_offset)
    ELSE IF index * sb.block_size + byte_index < off
         THEN read_bytes(sb, inode, block, index, off, n, buf, buf_offset, byte_index + 1)
    ELSE IF ~FitsBlock(block, byte_index, 1) THEN Transfer("APIError", buf, buf_offset)
    ELSE IF ~BufferFits(buf, buf_offset) THEN Transfer("ok", buf, buf_offset)
    ELSE read_bytes(sb, inode, block, index, off, n,
                    [buf EXCEPT ![buf_offset + 1] = block[byte_index]],
                    buf_offset + 1, byte_index + 1)

\* what i_read and i_write return: val is the number of bytes and the buffer
\* for i_read, the caller's inode for i_write
Read(st, count, buf, dev) == Ret(st, [count |-> count, buf |-> buf], dev)

\* the outer loop of i_read over the first nb_selected_blocks blocks
RECURSIVE read_blocks(_, _, _, _, _, _, _, _, _)
read_blocks(dev, sb, inode, off, n, buf, buf_offset, index, nb_selected_blocks) ==
    LET element == inode.direct_blocks[index]
        got == b_get(dev, element)
        bytes == read_bytes(sb, inode, got.val, index, off, n, buf, buf_offset, 0)
    IN IF index >= nb_selected_blocks THEN Read("ok", buf_offset, buf, dev)
       ELSE IF (index + 1) * sb.block_size < off
            THEN read_blocks(dev, sb, inode, off, n, buf, buf_offset, index + 1,
                             nb_selected_blocks)
       ELSE IF buf_offset >= n \/ buf_offset >= Len(buf) THEN Read("ok", buf_offset, buf, dev)
       ELSE IF index >= NDIRECT THEN Read("panic", buf_offset, buf, dev)
       ELSE IF element = 0
            THEN read_blocks(dev, sb, inode, off, n, buf, buf_offset, index + 1,
                             nb_selected_blocks)
       ELSE IF got.st # "ok" THEN Read(got.st, buf_offset, buf, dev)
       ELSE IF bytes.st # "ok" THEN Read(bytes.st, bytes.buf_offset, bytes.buf, dev)
       ELSE read_blocks(dev, sb, inode, off, n, bytes.buf, bytes.buf_offset, index + 1,
                        nb_selected_blocks)

\* i_read that takes the end of the file for past the end
i_read_end_fails(dev, sb, inode, buf, off, n) ==
    IF off >= inode.size THEN Read("IndexOutOfBounds", 0, buf, dev)
    ELSE read_blocks(dev, sb, inode, off, n, buf, 0, 0,
                     CeilDiv(inode.size, sb.block_size))

\* i_read
i_read(dev, sb, inode, buf, off, n) ==
    IF off = inode.size THEN Read("ok", 0, buf, dev)
    ELSE IF off > inode.size THEN Read("IndexOutOfBounds", 0, buf, dev)
    ELSE read_blocks(dev, sb, inode, off, n, buf, 0, 0,
                     CeilDiv(inode.size, sb.block_size))

\* the allocation loop of i_write: amount new blocks, from the i-th on, go
\* to direct_blocks[current_amount_blocks + i]
RECURSIVE alloc_blocks(_, _, _, _, _, _, _)
alloc_blocks(dev, sb, oc, inode, current_amount_blocks, i, amount_of_new_blocks) ==
    LET alloc == b_alloc(dev, sb, oc)
        new_block_index == sb.datastart + alloc.val
        listed == [inode EXCEPT !.direct_blocks[current_amount_blocks + i] = new_block_index]
    IN IF i >= amount_of_new_blocks THEN Ret("ok", inode, dev)
       ELSE IF alloc.st # "ok" THEN Ret(alloc.st, inode, alloc.dev)
       ELSE IF current_amount_blocks + i >= NDIRECT THEN Ret("panic", inode, alloc.dev)
       ELSE alloc_blocks(alloc.dev, sb, oc, listed, current_amount_blocks, i + 1,
                         amount_of_new_blocks)

\* the inner loop of i_write over the bytes of block; buf here is the block
RECURSIVE write_bytes(_, _, _, _, _, _, _, _)
write_bytes(sb, block, index, off, n, buf, buf_offset, byte_index) ==
    IF byte_index >= sb.block_size THEN Transfer("ok", block, buf_offset)
    ELSE IF buf_offset >= n THEN Transfer("ok", block, buf_offset)
    ELSE IF index * sb.block_size + byte_index < off
         THEN write_bytes(sb, block, index, off, n, buf, buf_offset, byte_index + 1)
    ELSE IF ~BufferFits(buf, buf_offset) THEN Transfer("APIError", block, buf_offset)
    ELSE IF ~FitsBlock(block, byte_index, 1) THEN Transfer("ok", block, buf_offset)
    ELSE write_bytes(sb, [block EXCEPT ![byte_index] = buf[buf_offset + 1]], index, off, n,
                     buf, buf_offset + 1, byte_index + 1)

\* the outer loop of i_write; the b_put of every pass of the inner loop
\* leaves the block as the last of them writes it
RECURSIVE write_blocks(_, _, _, _, _, _, _, _, _)
write_blocks(dev, sb, inode, off, n, buf, buf_offset, index, nb_selected_blocks) ==
    LET element == inode.direct_blocks[index]
        got == b_get(dev, element)
        bytes == write_bytes(sb, got.val, index, off, n, buf, buf_offset, 0)
        put == b_put(dev, element, bytes.buf)
    IN IF index >= nb_selected_blocks THEN Ret("ok", inode, dev)
       ELSE IF (index + 1) * sb.block_size < off
            THEN write_blocks(dev, sb, inode, off, n, buf, buf_offset, index + 1,
                              nb_selected_blocks)
       ELSE IF buf_offset >= n THEN Ret("ok", inode, dev)
       ELSE IF index >= NDIRECT THEN Ret("panic", inode, dev)
       ELSE IF element = 0
            THEN write_blocks(dev, sb, inode, off, n, buf, buf_offset, index + 1,
                              nb_selected_blocks)
       ELSE IF got.st # "ok" THEN Ret(got.st, inode, dev)
       ELSE IF put.st # "ok" THEN Ret(put.st, inode, dev)
       ELSE IF bytes.st # "ok" THEN Ret(bytes.st, inode, put.dev)
       ELSE write_blocks(put.dev, sb, inode, off, n, buf, bytes.buf_offset, index + 1,
                         nb_selected_blocks)

\* i_write that looks at the size of the write before the size of buf
i_write_size_first(dev, sb, is, nib, oc, inode, buf, off, n) ==
    LET current_amount_blocks == CeilDiv(inode.size, sb.block_size)
        grows == off + n > current_amount_blocks * sb.block_size
        remaining_bytes == (off + n) - inode.size
        amount_of_new_blocks == CeilDiv(remaining_bytes, sb.block_size)
        alloc == alloc_blocks(dev, sb, oc, inode, current_amount_blocks, 0,
                              amount_of_new_blocks)
        grown == [alloc.val EXCEPT !.size = off + n]
        put == i_put(alloc.dev, is, nib, grown)
        sized == IF grows THEN grown
                 ELSE IF off + n < current_amount_blocks * sb.block_size
                         /\ off + n > inode.size
                      THEN [inode EXCEPT !.size = off + n]
                 ELSE inode
        base == IF grows THEN put.dev ELSE dev
        put_again == i_put(base, is, nib, sized)
    IN IF off > inode.size THEN Ret("IndexOutOfBounds", inode, dev)
       ELSE IF off + n > NDIRECT * sb.block_size THEN Ret("WriteTooLarge", inode, dev)
       ELSE IF Len(buf) < n THEN Ret("BufTooSmall", inode, dev)
       ELSE IF grows /\ alloc.st # "ok" THEN Ret(alloc.st, alloc.val, alloc.dev)
       ELSE IF grows /\ put.st # "ok" THEN Ret(put.st, grown, put.dev)
       ELSE IF put_again.st # "ok" THEN Ret(put_again.st, sized, put_again.dev)
       ELSE write_blocks(put_again.dev, sb, sized, off, n, buf, 0, 0,
                         CeilDiv(sized.size, sb.block_size))

\* i_write; val is the caller's inode after the call
i_write(dev, sb, is, nib, oc, inode, buf, off, n) ==
    LET current_amount_blocks == CeilDiv(inode.size, sb.block_size)
        grows == off + n > current_amount_blocks * sb.block_size
        remaining_bytes == (off + n) - inode.size
        amount_of_new_blocks == CeilDiv(remaining_bytes, sb.block_size)
        alloc == alloc_blocks(dev, sb, oc, inode, current_amount_blocks, 0,
                              amount_of_new_blocks)
        grown == [alloc.val EXCEPT !.size = off + n]
        put == i_put(alloc.dev, is, nib, grown)
        sized == IF grows THEN grown
                 ELSE IF off + n < current_amount_blocks * sb.block_size
                         /\ off + n > inode.size
                      THEN [inode EXCEPT !.size = off + n]
                 ELSE inode
        base == IF grows THEN put.dev ELSE dev
        put_again == i_put(base, is, nib, sized)
    IN IF off > inode.size THEN Ret("IndexOutOfBounds", inode, dev)
       ELSE IF Len(buf) < n THEN Ret("BufTooSmall", inode, dev)
       ELSE IF off + n > NDIRECT * sb.block_size THEN Ret("WriteTooLarge", inode, dev)
       ELSE IF grows /\ alloc.st # "ok" THEN Ret(alloc.st, alloc.val, alloc.dev)
       ELSE IF grows /\ put.st # "ok" THEN Ret(put.st, grown, put.dev)
       ELSE IF put_again.st # "ok" THEN Ret(put_again.st, sized, put_again.dev)
       ELSE write_blocks(put_again.dev, sb, sized, off, n, buf, 0, 0,
                         CeilDiv(sized.size, sb.block_size))

-----------------------------------------------------------------------------
(* Superblocks *)

SB(block_size, nblocks, ninodes, inodestart, ndatablocks, bmapstart, datastart) ==
    [ block_size |-> block_size, nblocks |-> nblocks, ninodes |-> ninodes,
      inodestart |-> inodestart, ndatablocks |-> ndatablocks,
      bmapstart |-> bmapstart, datastart |-> datastart ]

\* a bitmap of one block, three data blocks
SBTiny == SB(SUPERBLOCK_SIZE, 6, 1, 1, 3, 2, 3)

\* a bitmap of two blocks: one data block more than one bitmap block has bits
SBTwoBitmapBlocks ==
    SB(SUPERBLOCK_SIZE, 4 + SUPERBLOCK_SIZE * BYTE_BITS + 1, 1, 1,
       SUPERBLOCK_SIZE * BYTE_BITS + 1, 2, 4)

\* no data block and no inode; the device has one block after the bitmap
SBNoData == SB(SUPERBLOCK_SIZE, 4, 0, 1, 0, 2, 3)

BlockSBs == {SBTiny, SBTwoBitmapBlocks, SBNoData}

\* two inodes to the block and no byte to spare; four inodes in two blocks
SBTwoInodeBlocks == SB(2 * DINODE_SIZE, 6, 4, 1, 2, 3, 4)

\* one inode to the block and two bytes to spare: the three inode blocks
\* have the bytes of four inodes, and sb_valid accepts ninodes = 4
SBSpareBytes ==
    SB(DINODE_SIZE + 2, 7, (3 * (DINODE_SIZE + 2)) \div DINODE_SIZE, 1, 2, 4, 5)

\* no inode, one data block
SBNoInodes == SB(SUPERBLOCK_SIZE, 4, 0, 1, 1, 2, 3)

InodeSBs == {SBTwoInodeBlocks, SBSpareBytes, SBNoInodes}

\* the inodes a caller hands to i_put: for the first and the last inode
\* number, a file of two blocks, a file of one byte that lists a second
\* block past its size, a file with a link, and a directory of two blocks
\* whose first entry is 0
PutInodes(sb) ==
    { Inode(inum, d) :
        inum \in {n \in {1, sb.ninodes - 1} : n >= 0},
        d \in { DInode("TFile", 0, sb.block_size + 1,
                       DirectBlocks(<<sb.datastart, sb.datastart + 1>>)),
                DInode("TFile", 0, 1,
                       DirectBlocks(<<sb.datastart + 1, sb.datastart>>)),
                DInode("TFile", 1, sb.block_size,
                       DirectBlocks(<<sb.datastart>>)),
                DInode("TDir", 0, 2 * sb.block_size,
                       DirectBlocks(<<0, sb.datastart + 1>>)) } }

\* arguments of b_free and b_zero: every index up to ndatablocks when the
\* data region is small; else the first data block, the last one, the two
\* around the end of the first bitmap block, and the first index past the
\* data region
DataArgs(sb) ==
    IF sb.ndatablocks <= 4 THEN 0..sb.ndatablocks
    ELSE { i \in 0..sb.ndatablocks :
             \/ i = 0
             \/ i >= sb.ndatablocks - 1
             \/ i \in { sb.block_size * BYTE_BITS - 1, sb.block_size * BYTE_BITS } }

\* arguments of b_put: the first and the last data block
PutArgs(sb) ==
    { sb.datastart + i : i \in {j \in {0, sb.ndatablocks - 1} : j >= 0} }

\* arguments of b_get: the superblock's block, the last block, and none
GetArgs(sb) == {0, sb.nblocks - 1, sb.nblocks}

\* the block a caller writes with b_put: every byte 0xFF
DirtyBlock(block_size) == [o \in 0..(block_size - 1) |-> WORD - 1]

\* arguments of i_get: the last inode number and the first one past it
InodeGetArgs(sb) == {n \in {sb.ninodes - 1, sb.ninodes} : n >= 0}

\* the bit of data block i, at the place section 6.1 gives it: bitmap block
\* bmapstart + i/(block_size*8), byte (i mod (block_size*8))/8, bit i mod 8
BitBlock(sb, i) == sb.bmapstart + (i \div (sb.block_size * BYTE_BITS))

BitByte(sb, i) == (i % (sb.block_size * BYTE_BITS)) \div BYTE_BITS

BitmapBit(dev, sb, i) == Bit(dev.blocks[BitBlock(sb, i)][BitByte(sb, i)], i % BYTE_BITS)

-----------------------------------------------------------------------------
(* The state machine.  res records the last call: the operation, its        *)
(* argument, the status returned and the value returned.                    *)

Res(op, arg, st, val) == [op |-> op, arg |-> arg, st |-> st, val |-> val]

Running == res.st # "panic"

\* the superblocks handed to sb_valid: every field from a few values around
\* the conditions, and values large enough for the products to overflow
SbValidInputs ==
    { SB(bs, nb, ni, is, nd, bm, ds) :
        bs \in {1, DINODE_SIZE, 2 * DINODE_SIZE},
        nb \in {3, 5, 6, WORD - 1},
        ni \in {0, 1, 2, (WORD \div DINODE_SIZE) + 1},
        is \in {0, 1, 2},
        nd \in {0, 1, 9, WORD - 1},
        bm \in {1, 2, 3},
        ds \in {2, 3, 4, 5} }

InitSbValid ==
    /\ superblock \in SbValidInputs
    /\ overflow_checks \in BOOLEAN
    /\ device = NewDevice(0, 0)
    /\ inode_start = 0
    /\ nb_inodes_block = 0
    /\ res = Res("none", NoVal, "ok", NoVal)

Sb_valid ==
    /\ res.op = "none"
    /\ res' = Res("sb_valid", NoVal, sb_valid(superblock, overflow_checks), NoVal)
    /\ UNCHANGED <<device, superblock, inode_start, nb_inodes_block, overflow_checks>>

NextSbValid == Sb_valid

SpecSbValid == InitSbValid /\ [][NextSbValid]_vars

\* CustomBlockFileSystem::mkfs(path, sb) has returned Ok
InitBlock ==
    /\ superblock \in BlockSBs
    /\ overflow_checks \in BOOLEAN
    /\ sb_valid(superblock, overflow_checks) = "true"
    /\ block_mkfs(superblock).st = "ok"
    /\ device = block_mkfs(superblock).dev
    /\ inode_start = 0
    /\ nb_inodes_block = 0
    /\ res = Res("mkfs", NoVal, "ok", NoVal)

Call(op, arg, r) ==
    /\ Running
    /\ res' = Res(op, arg, r.st, r.val)
    /\ device' = r.dev
    /\ UNCHANGED <<superblock, inode_start, nb_inodes_block, overflow_checks>>

B_get == \E i \in GetArgs(superblock) :
    LET r == b_get(device, i)
    IN Call("b_get", i, Ret(r.st, NoVal, r.dev))

B_put == \E i \in PutArgs(superblock) :
    Call("b_put", i, b_put(device, i, DirtyBlock(device.block_size)))

B_free == \E i \in DataArgs(superblock) :
    Call("b_free", i, b_free(device, sup_get(superblock), overflow_checks, i))

B_zero == \E i \in DataArgs(superblock) :
    Call("b_zero", i, b_zero(device, sup_get(superblock), overflow_checks, i))

B_alloc == Call("b_alloc", NoVal, b_alloc(device, sup_get(superblock), overflow_checks))

NextBlock == B_get \/ B_put \/ B_free \/ B_zero \/ B_alloc

SpecBlock == InitBlock /\ [][NextBlock]_vars

-----------------------------------------------------------------------------
(* The inode layer's state machine *)

\* CustomInodeFileSystem::mkfs(path, sb) has returned Ok
InitInode ==
    /\ superblock \in InodeSBs
    /\ overflow_checks \in BOOLEAN
    /\ sb_valid(superblock, overflow_checks) = "true"
    /\ inode_mkfs(superblock).st = "ok"
    /\ device = inode_mkfs(superblock).dev
    /\ inode_start = superblock.inodestart
    /\ nb_inodes_block = superblock.block_size \div DINODE_SIZE
    /\ res = Res("mkfs", NoVal, "ok", NoVal)

\* the layer's i_get and i_put on the current state
IGet(dev, i) ==
    i_get(dev, sup_get(superblock), inode_start, nb_inodes_block, overflow_checks, i)

\* the file type i_get(i) returns, "none" when i_get fails
FtOf(dev, i) == IF IGet(dev, i).st = "ok" THEN IGet(dev, i).val.ft ELSE "none"

\* what i_get(i) returns, without the device
Got(dev, i) == <<IGet(dev, i).st, IGet(dev, i).val>>

I_get == \E i \in InodeGetArgs(superblock) :
    Call("i_get", i, IGet(device, i))

I_put == \E ino \in PutInodes(superblock) :
    Call("i_put", ino, i_put(device, inode_start, nb_inodes_block, ino))

I_free == \E i \in 0..superblock.ninodes :
    Call("i_free", i, i_free(device, sup_get(superblock), inode_start,
                             nb_inodes_block, overflow_checks, i))

I_alloc == \E ft \in {"TFile", "TDir"} :
    Call("i_alloc", ft, i_alloc(device, sup_get(superblock), inode_start,
                                nb_inodes_block, overflow_checks, ft))

I_trunc == \E inode \in PutInodes(superblock) :
    Call("i_trunc", inode, i_trunc(device, sup_get(superblock), inode_start,
                                   nb_inodes_block, overflow_checks, inode))

NextInode == I_get \/ I_put \/ I_free \/ I_alloc \/ I_trunc \/ B_alloc \/ B_free

SpecInode == InitInode /\ [][NextInode]_vars

-----------------------------------------------------------------------------
(* Creating, unmounting and mounting a block-layer file system.  While no   *)
(* file system is mounted the cached superblock is NoSB; device is then the *)
(* device the caller holds, if any.                                         *)

NoSB == SB(0, 0, 0, 0, 0, 0, 0)

\* the superblocks handed to mkfs: valid and invalid ones, with a block
\* smaller than a serialized superblock, and with a product that overflows
MkfsSBs ==
    { SB(bs, nb, ni, is, nd, bm, 3) :
        bs \in {1, SUPERBLOCK_SIZE, 2 * DINODE_SIZE},
        nb \in {4, 6},
        ni \in {0, 2, (WORD \div DINODE_SIZE) + 1},
        is \in {0, 1},
        nd \in {1, 3},
        bm \in {1, 2} }

\* the superblocks handed to sup_put on a device: a valid one of the
\* device's geometry, one with another nblocks, one with another block_size,
\* an invalid one, an invalid one with another nblocks, and one whose
\* validation overflows
SupPutSBs(dev) ==
    LET fits == SB(dev.block_size, dev.nblocks, 1, 1, 1, 2, 3)
    IN { fits,
         [fits EXCEPT !.nblocks = dev.nblocks + 1],
         [fits EXCEPT !.block_size = dev.block_size + 1],
         [fits EXCEPT !.inodestart = 0],
         [fits EXCEPT !.inodestart = 0, !.nblocks = dev.nblocks + 1],
         [fits EXCEPT !.ninodes = (WORD \div DINODE_SIZE) + 1] }

Mounted == superblock # NoSB

InitMount ==
    /\ superblock = NoSB
    /\ overflow_checks \in BOOLEAN
    /\ device = NewDevice(0, 0)
    /\ inode_start = 0
    /\ nb_inodes_block = 0
    /\ res = Res("none", NoVal, "ok", NoVal)

Mkfs == \E sb \in MkfsSBs :
    LET r == mkfs(sb, overflow_checks)
    IN /\ res.op = "none"
       /\ res' = Res("mkfs", sb, r.st, NoVal)
       /\ device' = r.dev
       /\ superblock' = IF r.st = "ok" THEN sb ELSE NoSB
       /\ UNCHANGED <<inode_start, nb_inodes_block, overflow_checks>>

Sup_put == \E sup \in SupPutSBs(device) :
    LET r == sup_put(device, sup)
    IN /\ Running /\ Mounted
       /\ res' = Res("sup_put", sup, r.st, NoVal)
       /\ device' = r.dev
       /\ superblock' = IF r.st = "ok" THEN sup ELSE superblock
       /\ UNCHANGED <<inode_start, nb_inodes_block, overflow_checks>>

Unmountfs ==
    /\ Running /\ Mounted
    /\ res' = Res("unmountfs", NoVal, "ok", NoVal)
    /\ superblock' = NoSB
    /\ UNCHANGED <<device, inode_start, nb_inodes_block, overflow_checks>>

Mountfs ==
    LET r == mountfs(device, overflow_checks)
    IN /\ Running /\ ~Mounted /\ res.op = "unmountfs"
       /\ res' = Res("mountfs", NoVal, r.st, r.val)
       /\ superblock' = IF r.st = "ok" THEN r.val ELSE NoSB
       /\ UNCHANGED <<device, inode_start, nb_inodes_block, overflow_checks>>

NextMount == Mkfs \/ Sup_put \/ Unmountfs \/ Mountfs

SpecMount == InitMount /\ [][NextMount]_vars

-----------------------------------------------------------------------------
(* The directory layer's state machine *)

\* two entries to the block and one byte to spare; three inodes, one to
\* the block; three data blocks
SBDir == SB(2 * DIRENTRY_SIZE + 1, 8, 3, 1, 3, 4, 5)

\* two entries to the block and two bytes to spare; one inode to the block,
\* and sb_valid accepts as many inodes as the bytes of the three inode
\* blocks hold
SBDirSpare ==
    SB(2 * DIRENTRY_SIZE + 2, 8, (3 * (2 * DIRENTRY_SIZE + 2)) \div DINODE_SIZE,
       1, 3, 4, 5)

DirSBs == {SBDir, SBDirSpare}

\* the slots <<index, k>> of the blocks a directory inode lists among its
\* first ceil(size / block_size) direct_blocks
DirSlots(sb, inode) ==
    { sl \in (0..(NDIRECT - 1)) \X (0..((sb.block_size \div DIRENTRY_SIZE) - 1)) :
        /\ sl[1] < CeilDiv(inode.size, sb.block_size)
        /\ inode.direct_blocks[sl[1]] # 0 }

\* the entry in slot sl, and its offset in the directory
EntryAt(dev, inode, sl) ==
    DeserDirEntry(ReadCells(dev.blocks[inode.direct_blocks[sl[1]]],
                            sl[2] * DIRENTRY_SIZE, DIRENTRY_SIZE))

SlotOffset(sb, sl) == sb.block_size * sl[1] + sl[2] * DIRENTRY_SIZE

\* the slots that hold an entry
Occupied(dev, sb, inode) ==
    { sl \in DirSlots(sb, inode) : EntryAt(dev, inode, sl).inum # 0 }

\* the names a caller links, in the order it links them, each with the
\* inode it names: inode 2 and the root in turn
LinkNames == << <<"a">>, <<"b">>, <<"a", "b">>, <<".", ".">>, <<"b", "a">> >>

LinkTarget(n) == 2 - ((n + 1) % 2)

\* the names and inode numbers handed to dirlink on a directory: the next
\* name of LinkNames, the names linked before it, a name that set_name_str
\* refuses, and the first name for the last inode
LinkArgs(dev, sb, inode) ==
    LET linked == Cardinality(Occupied(dev, sb, inode))
        upto == IF linked < Len(LinkNames) THEN linked + 1 ELSE Len(LinkNames)
    IN { <<LinkNames[n], LinkTarget(n)>> : n \in 1..upto }
         \cup { <<LinkNames[1], sb.ninodes - 1>>, <<<<"-">>, 2>> }

\* the names handed to dirlookup
LookupNames == { <<"a">>, <<".", ".">> }

\* the inodes handed to dirlink and dirlookup as directories: what i_get
\* returns for the root and for inode 2
DirInodes(dev, sb) ==
    { IGet(dev, i).val : i \in { j \in {1, 2} : IGet(dev, j).st = "ok" } }

\* the data blocks no inode lists that the caller has allocated
Unlisted(dev, sb) ==
    { b \in sb.datastart..(sb.datastart + sb.ndatablocks - 1) :
        /\ BitmapBit(dev, sb, b - sb.datastart) = 1
        /\ \A i \in 0..(sb.ninodes - 1) :
             IGet(dev, i).st = "ok" =>
               \A k \in 0..(NDIRECT - 1) : IGet(dev, i).val.direct_blocks[k] # b }

\* the directory a caller makes of inode 2 with i_put: one block it has
\* allocated, all of it content
PutDirs(dev, sb) ==
    { Inode(2, DInode("TDir", 0, sb.block_size, DirectBlocks(<<b>>))) :
        b \in Unlisted(dev, sb) }

InitDir ==
    /\ superblock \in DirSBs
    /\ overflow_checks \in BOOLEAN
    /\ sb_valid(superblock, overflow_checks) = "true"
    /\ dir_mkfs(superblock, overflow_checks).st = "ok"
    /\ device = dir_mkfs(superblock, overflow_checks).dev
    /\ inode_start = superblock.inodestart
    /\ nb_inodes_block = superblock.block_size \div DINODE_SIZE
    /\ res = Res("mkfs", NoVal, "ok", NoVal)

Dirlink == \E inode \in DirInodes(device, superblock) :
    \E a \in LinkArgs(device, superblock, inode) :
        Call("dirlink", [inode |-> inode, name |-> a[1], inum |-> a[2]],
             dirlink(device, sup_get(superblock), inode_start, nb_inodes_block,
                     overflow_checks, inode, a[1], a[2]))

\* the handles a caller read before the last dirlink on a directory filled
\* a slot after the first of a block: the inode as it is, one entry shorter
EarlierHandles(dev, sb) ==
    { [d EXCEPT !.size = d.size - DIRENTRY_SIZE] :
        d \in { e \in DirInodes(dev, sb) :
                  /\ e.ft = "TDir"
                  /\ \E sl \in Occupied(dev, sb, e) :
                        /\ sl[2] > 0
                        /\ SlotOffset(sb, sl) + DIRENTRY_SIZE = e.size } }

Dirlookup == \E inode \in DirInodes(device, superblock) \cup EarlierHandles(device, superblock), name \in LookupNames :
    Call("dirlookup", [inode |-> inode, name |-> name],
         dirlookup(device, sup_get(superblock), inode_start, nb_inodes_block,
                   overflow_checks, inode, name))

\* the caller makes a directory of inode 2, while it is Free, from a
\* block it has allocated
Put_dir == \E ino \in PutDirs(device, superblock) :
    /\ FtOf(device, 2) = "TFree"
    /\ Call("i_put", ino, i_put(device, inode_start, nb_inodes_block, ino))

\* the caller allocates a file while inode 2 is Free
Alloc_file ==
    /\ FtOf(device, 2) = "TFree"
    /\ Call("i_alloc", "TFile", i_alloc(device, sup_get(superblock), inode_start,
                                        nb_inodes_block, overflow_checks, "TFile"))

\* the caller allocates a data block for that directory
Alloc_block ==
    /\ Unlisted(device, superblock) = {}
    /\ FtOf(device, 2) = "TFree"
    /\ Call("b_alloc", NoVal, b_alloc(device, sup_get(superblock), overflow_checks))

NextDir == Dirlink \/ Dirlookup \/ Put_dir \/ Alloc_file \/ Alloc_block

SpecDir == InitDir /\ [][NextDir]_vars

-----------------------------------------------------------------------------
(* The state machine of the read/write layer: CustomInodeRWFileSystem::mkfs *)
(* has returned Ok; the caller allocates a file, writes, reads, truncates  *)
(* and frees it, each time with the inode as i_get returns it.             *)

\* one inode to the block, blocks of seven bytes, two data blocks more than
\* an inode lists
SBRW == SB(SUPERBLOCK_SIZE, 7 + NDIRECT, 3, 1, NDIRECT + 2, 4, 5)

\* the most bytes an inode holds
MaxFileSize(sb) == NDIRECT * sb.block_size

\* a buffer of size bytes, each telling its place and the buffer it is from
Pattern(seed, size) == [j \in 1..size |-> seed + j]

\* a buffer of size zeros, to read into
Zeros(size) == [j \in 1..size |-> 0]

\* the file handed to i_read, i_write and i_trunc: inode 1 as i_get returns
\* it, when it is a file
Files(dev, sb) ==
    { IGet(dev, i).val : i \in { j \in {1} : FtOf(dev, j) = "TFile" } }

\* the offsets of a call: the start, the last byte, the end, and past the end
Offsets(inode) == { o \in {0, inode.size - 1, inode.size, inode.size + 1} : o >= 0 }

\* the lengths written at offset off: a byte, two, up to the end of the last
\* block listed, one block, up to the largest size, and one byte more
WriteLengths(sb, inode, off) ==
    { n \in { 1, 2, CeilDiv(inode.size, sb.block_size) * sb.block_size - off,
              sb.block_size, MaxFileSize(sb) - off, MaxFileSize(sb) - off + 1 } : n > 0 }

\* the buffers written: of n bytes, other bytes for an empty file than for
\* one that has been written, and for two bytes one that is too small
WriteBufs(inode, n) ==
    { Pattern(IF inode.size = 0 THEN 16 ELSE 32, n) } \cup
        (IF n = 2 THEN { Pattern(16, 1) } ELSE {})

\* the lengths read, and the buffers read into
ReadLengths(sb) == { 1, MaxFileSize(sb) }

ReadBufs(sb, n) == { Zeros(n) } \cup (IF n > 1 THEN { Zeros(sb.block_size + 1) } ELSE {})

InitRW ==
    /\ superblock = SBRW
    /\ overflow_checks \in BOOLEAN
    /\ sb_valid(superblock, overflow_checks) = "true"
    /\ inode_mkfs(superblock).st = "ok"
    /\ device = inode_mkfs(superblock).dev
    /\ inode_start = superblock.inodestart
    /\ nb_inodes_block = superblock.block_size \div DINODE_SIZE
    /\ res = Res("mkfs", NoVal, "ok", NoVal)

RW_alloc ==
    /\ FtOf(device, 1) = "TFree"
    /\ Call("i_alloc", "TFile", i_alloc(device, sup_get(superblock), inode_start,
                                     nb_inodes_block, overflow_checks, "TFile"))

\* the caller writes an empty file, and once more right after that
Writes(inode) ==
    \/ inode.size = 0
    \/ res.op = "i_write" /\ res.st = "ok" /\ res.arg.inode.size = 0

I_write == \E inode \in Files(device, superblock) :
    \E off \in Offsets(inode) :
        \E n \in WriteLengths(superblock, inode, off) :
            \E buf \in WriteBufs(inode, n) :
                /\ Writes(inode)
                /\ Call("i_write", [inode |-> inode, buf |-> buf, off |-> off, n |-> n],
                        i_write(device, sup_get(superblock), inode_start, nb_inodes_block,
                                overflow_checks, inode, buf, off, n))

\* the file as a caller hands it to i_read with one of the direct blocks
\* of its content set to 0
HoledFiles(dev, sb) ==
    { [f EXCEPT !.direct_blocks[k] = 0] :
        f \in Files(dev, sb), k \in 0..(NDIRECT - 1) } \ Files(dev, sb)

I_read == \E inode \in Files(device, superblock) \cup HoledFiles(device, superblock) :
    \E off \in Offsets(inode), n \in ReadLengths(superblock) :
        \E buf \in ReadBufs(superblock, n) :
            Call("i_read", [inode |-> inode, buf |-> buf, off |-> off, n |-> n],
                 i_read(device, sup_get(superblock), inode, buf, off, n))

\* the caller truncates and frees the file while it has at most one byte
Small(dev, i) == IGet(dev, i).st = "ok" /\ IGet(dev, i).val.size <= 1

RW_trunc == \E inode \in { f \in Files(device, superblock) : Small(device, f.inum) } :
    Call("i_trunc", inode, i_trunc(device, sup_get(superblock), inode_start,
                                   nb_inodes_block, overflow_checks, inode))

RW_free == \E i \in { j \in {1} : Small(device, j) } :
    Call("i_free", i, i_free(device, sup_get(superblock), inode_start,
                             nb_inodes_block, overflow_checks, i))

NextRW == RW_alloc \/ I_write \/ I_read \/ RW_trunc \/ RW_free

SpecRW == InitRW /\ [][NextRW]_vars

-----------------------------------------------------------------------------
(* The state machine of block ownership: the directory layer's mkfs has     *)
(* returned Ok, and the caller allocates inodes, writes to the files        *)
(* through the read/write layer mounted on the same device, links names     *)
(* in the root directory, truncates and frees, each time with the inode as  *)
(* i_get returns it.                                                        *)

\* the inodes in use, as i_get returns them
InUse(dev, sb) ==
    { IGet(dev, i).val :
        i \in { j \in 1..(sb.ninodes - 1) :
                  IGet(dev, j).st = "ok" /\ FtOf(dev, j) \in {"TDir", "TFile"} } }

\* the lengths of the writes: a block
OwnLengths(sb) == { sb.block_size }

\* the caller links an inode while it has fewer links than this
MaxLinks == 2

\* the names and inode numbers handed to dirlink: the next name of
\* LinkNames, until a second block holds an entry, for inode 2 and for the
\* last inode
OwnArgs(dev, sb, inode) ==
    LET linked == Cardinality(Occupied(dev, sb, inode))
    IN IF linked > sb.block_size \div DIRENTRY_SIZE THEN {}
       ELSE { <<LinkNames[linked + 1], t>> : t \in {2, sb.ninodes - 1} }

Own_alloc ==
    Call("i_alloc", "TFile", i_alloc(device, sup_get(superblock), inode_start,
                                     nb_inodes_block, overflow_checks, "TFile"))

\* the caller appends to a file
Own_write == \E inode \in { f \in InUse(device, superblock) : f.ft = "TFile" /\ f.inum <= 2 } :
    \E n \in OwnLengths(superblock) :
        Call("i_write", [inode |-> inode, buf |-> Pattern(16, n), off |-> inode.size,
                         n |-> n],
             i_write(device, sup_get(superblock), inode_start, nb_inodes_block,
                     overflow_checks, inode, Pattern(16, n), inode.size, n))

\* the caller links the next name in the root directory, to an inode with
\* fewer than MaxLinks links
Own_link == \E inode \in { d \in InUse(device, superblock) : d.inum = 1 } :
    \E a \in { l \in OwnArgs(device, superblock, inode) :
                 IGet(device, l[2]).st = "ok" => IGet(device, l[2]).val.nlink < MaxLinks } :
        Call("dirlink", [inode |-> inode, name |-> a[1], inum |-> a[2]],
             dirlink(device, sup_get(superblock), inode_start, nb_inodes_block,
                     overflow_checks, inode, a[1], a[2]))

\* the caller truncates and frees the root and inode 2
Own_trunc == \E inode \in { f \in InUse(device, superblock) : f.inum <= 2 } :
    Call("i_trunc", inode, i_trunc(device, sup_get(superblock), inode_start,
                                   nb_inodes_block, overflow_checks, inode))

Own_free == \E i \in 1..2 :
    Call("i_free", i, i_free(device, sup_get(superblock), inode_start,
                             nb_inodes_block, overflow_checks, i))

NextOwn == Own_alloc \/ Own_write \/ Own_link \/ Own_trunc \/ Own_free

SpecOwn == InitDir /\ [][NextOwn]_vars

-----------------------------------------------------------------------------
(* The state machine of the read-only operations: the directory layer's     *)
(* mkfs has returned Ok; the caller allocates a file, links names in the    *)
(* root directory and appends to the file, and between these calls reads    *)
(* blocks, the superblock, inodes, names and bytes.                         *)

Q_get == \E i \in GetArgs(superblock) :
    LET r == b_get(device, i)
    IN Call("b_get", i, Ret(r.st, NoVal, r.dev))

Q_sup_get == Call("sup_get", NoVal, Ret("ok", sup_get(superblock), device))

Q_i_get == \E i \in {1, 2, superblock.ninodes} :
    Call("i_get", i, IGet(device, i))

Q_lookup == \E inode \in { f \in InUse(device, superblock) : f.inum <= 2 } :
    \E name \in LookupNames :
        Call("dirlookup", [inode |-> inode, name |-> name],
             dirlookup(device, sup_get(superblock), inode_start, nb_inodes_block,
                       overflow_checks, inode, name))

Q_read == \E inode \in { f \in InUse(device, superblock) : f.ft = "TFile" /\ f.inum <= 2 } :
    \E off \in Offsets(inode), n \in ReadLengths(superblock) :
        Call("i_read", [inode |-> inode, buf |-> Zeros(n), off |-> off, n |-> n],
             i_read(device, sup_get(superblock), inode, Zeros(n), off, n))

NextQuery ==
    \/ Own_alloc \/ Own_link \/ Own_write
    \/ Q_get \/ Q_sup_get \/ Q_i_get \/ Q_lookup \/ Q_read

SpecQuery == InitDir /\ [][NextQuery]_vars

-----------------------------------------------------------------------------
(* The state machine of an inode-layer file system whose superblock is      *)
(* replaced: CustomInodeFileSystem::mkfs has returned Ok; the caller puts   *)
(* superblocks, and allocates, reads and frees inodes.                      *)

\* the superblocks handed to sup_put: the one of mkfs, and one whose inode
\* region starts a block later and holds the inodes of one block
MovedSBs ==
    { SBTwoInodeBlocks,
      [SBTwoInodeBlocks EXCEPT !.inodestart = SBTwoInodeBlocks.inodestart + 1,
                               !.ninodes = SBTwoInodeBlocks.block_size \div DINODE_SIZE] }

InitMoved == InitInode /\ superblock = SBTwoInodeBlocks

\* CustomInodeFileSystem::sup_put: the block layer's sup_put
M_sup_put == \E sup \in { sb \in MovedSBs : sb_valid(sb, overflow_checks) = "true" } :
    LET r == sup_put(device, sup)
    IN /\ Running
       /\ res' = Res("sup_put", sup, r.st, NoVal)
       /\ device' = r.dev
       /\ superblock' = IF r.st = "ok" THEN sup ELSE superblock
       /\ UNCHANGED <<inode_start, nb_inodes_block, overflow_checks>>

M_get == \E i \in 0..(superblock.ninodes - 1) :
    Call("i_get", i, IGet(device, i))

NextMoved == M_sup_put \/ M_get \/ I_alloc \/ I_free

SpecMoved == InitMoved /\ [][NextMoved]_vars

-----------------------------------------------------------------------------
(* Properties of the block layer *)

\* the section 3 invariants of a SuperBlock, over the integers
SuperBlockInvariants(sb) ==
    /\ sb.inodestart > 0
    /\ sb.inodestart < sb.bmapstart
    /\ sb.bmapstart < sb.datastart
    /\ DINODE_SIZE * sb.ninodes <= (sb.bmapstart - sb.inodestart) * sb.block_size
    /\ (sb.datastart - sb.bmapstart) * sb.block_size * BYTE_BITS >= sb.ndatablocks
    /\ sb.datastart + sb.ndatablocks <= sb.nblocks
    /\ 1 + (sb.bmapstart - sb.inodestart) + (sb.datastart - sb.bmapstart)
         + sb.ndatablocks <= sb.nblocks

\* no operation of sb_valid leaves the range of a u64
NoSbOverflow(sb) ==
    \A x \in { DINODE_SIZE * sb.ninodes,
               (sb.bmapstart - sb.inodestart) * sb.block_size,
               (sb.datastart - sb.bmapstart) * sb.block_size * BYTE_BITS,
               sb.datastart + sb.ndatablocks,
               1 + (sb.bmapstart - sb.inodestart) + (sb.datastart - sb.bmapstart)
                 + sb.ndatablocks } : x < WORD

\* C1: sb_valid(sb) returns true if and only if the six section 3
\* invariants of the superblock hold.
C1_SbValidIffInvariants ==
    res.op = "sb_valid" => (res.st = "true" <=> SuperBlockInvariants(superblock))

\* C1, where no product or sum of sb_valid overflows: then it returns, and
\* returns true exactly for the superblocks that satisfy the invariants.
C1_SbValidWithoutOverflow ==
    (res.op = "sb_valid" /\ NoSbOverflow(superblock))
        => /\ res.st \in {"true", "false"}
           /\ res.st = "true" <=> SuperBlockInvariants(superblock)

\* the data blocks whose bit is 0
FreeData(dev, sb) == { i \in 0..(sb.ndatablocks - 1) : BitmapBit(dev, sb, i) = 0 }

\* every bit position of the bitmap region
BitmapBits(sb) == 0..((sb.datastart - sb.bmapstart) * sb.block_size * BYTE_BITS - 1)

\* C2: b_alloc returns the smallest index in [0, ndatablocks) whose bit is
\* 0, and fails with NoFreeDataBlock if and only if all ndatablocks bits are 1.
C2_AllocLowestFree ==
    [][ res'.op = "b_alloc" =>
          IF FreeData(device, superblock) = {}
          THEN res'.st = "NoFreeDataBlock"
          ELSE res'.st = "ok" /\ res'.val = Min(FreeData(device, superblock)) ]_vars

\* C2, for a file system that has at least one data block.
C2_AllocLowestFreeWithData ==
    [][ (res'.op = "b_alloc" /\ superblock.ndatablocks > 0) =>
          IF FreeData(device, superblock) = {}
          THEN res'.st = "NoFreeDataBlock"
          ELSE res'.st = "ok" /\ res'.val = Min(FreeData(device, superblock)) ]_vars

\* C3: after a successful b_alloc returning i, bit i is 1, the block
\* datastart + i is all zeros, and every other bit of the bitmap is unchanged.
C3_AllocSetsBitZeroesBlock ==
    [][ (res'.op = "b_alloc" /\ res'.st = "ok") =>
          /\ BitmapBit(device', superblock, res'.val) = 1
          /\ device'.blocks[superblock.datastart + res'.val]
               = ZeroBlock(superblock.block_size)
          /\ \A j \in BitmapBits(superblock) \ {res'.val} :
               BitmapBit(device', superblock, j) = BitmapBit(device, superblock, j) ]_vars

\* a b_alloc has returned the first data block of the second bitmap block
C3_Witness ==
    /\ res.op = "b_alloc" /\ res.st = "ok"
    /\ res.val = superblock.block_size * BYTE_BITS
    /\ BitBlock(superblock, res.val) = superblock.bmapstart + 1

\* C4: b_free(i) on a data block whose bit is already 0 fails with
\* BlockIsAlreadyFree and changes nothing; a b_free(i) that follows a
\* b_free(i) never succeeds.
C4_FreeOfFreeBlockFails ==
    [][ /\ ( /\ res'.op = "b_free"
             /\ res'.arg < superblock.ndatablocks
             /\ BitmapBit(device, superblock, res'.arg) = 0 )
           => (res'.st = "BlockIsAlreadyFree" /\ device' = device)
        /\ (res.op = "b_free" /\ res'.op = "b_free" /\ res'.arg = res.arg)
           => res'.st # "ok" ]_vars

\* a b_free of a data block of the second bitmap block has failed
C4_Witness ==
    /\ res.op = "b_free" /\ res.st = "BlockIsAlreadyFree"
    /\ res.arg = superblock.block_size * BYTE_BITS
    /\ res.arg < superblock.ndatablocks

\* C5: a successful b_free(i) clears the bit i mod 8 of byte
\* (i mod (block_size*8))/8 of bitmap block bmapstart + i/(block_size*8),
\* which was 1, and changes no other bit and no other block.
C5_FreeClearsExactlyBit ==
    [][ (res'.op = "b_free" /\ res'.st = "ok") =>
          LET i == res'.arg
              blk == BitBlock(superblock, i)
              byte == BitByte(superblock, i)
          IN /\ Bit(device.blocks[blk][byte], i % BYTE_BITS) = 1
             /\ device' = [device EXCEPT !.blocks[blk][byte] = @ - Pow2(i % BYTE_BITS)] ]_vars

\* a b_free has cleared a bit of the second bitmap block
C5_Witness ==
    /\ res.op = "b_free" /\ res.st = "ok"
    /\ res.arg = superblock.block_size * BYTE_BITS
    /\ BitmapBit(device, superblock, res.arg) = 0
    /\ BitmapBit(device, superblock, res.arg - 1) = 1

-----------------------------------------------------------------------------
(* Properties of the inode layer *)

\* every inode number has its slot inside the inode region
InodesInRegion(sb) ==
    sb.ninodes <= (sb.block_size \div DINODE_SIZE) * (sb.bmapstart - sb.inodestart)

\* C6: after the inode layer's mkfs(sb), i_get(i) returns an inode with
\* ft == Free for every i in [0, ninodes) and fails with
\* InodeIndexOutOfBounds for every i >= ninodes.
C6_MkfsAllFree ==
    res.op = "mkfs" =>
        /\ \A i \in 0..(superblock.ninodes - 1) : FtOf(device, i) = "TFree"
        /\ \A i \in superblock.ninodes..(superblock.ninodes + 2) :
             IGet(device, i).st = "InodeIndexOutOfBounds"

\* C6, for a superblock with at least one inode whose inode region has a
\* slot for every inode number.
C6_MkfsAllFreeInRegion ==
    (res.op = "mkfs" /\ superblock.ninodes > 0 /\ InodesInRegion(superblock)) =>
        /\ \A i \in 0..(superblock.ninodes - 1) : FtOf(device, i) = "TFree"
        /\ \A i \in superblock.ninodes..(superblock.ninodes + 2) :
             IGet(device, i).st = "InodeIndexOutOfBounds"

\* C7: after i_put(ino) with ino.inum < ninodes, i_get(ino.inum) returns
\* exactly ino, and i_get(j) returns for every other inode j what it
\* returned before.
C7_PutThenGet ==
    [][ (res'.op = "i_put" /\ res'.st = "ok" /\ res'.arg.inum < superblock.ninodes) =>
          /\ Got(device', res'.arg.inum) = <<"ok", res'.arg>>
          /\ \A j \in (0..(superblock.ninodes - 1)) \ {res'.arg.inum} :
               Got(device', j) = Got(device, j) ]_vars

\* an i_put has written an inode of the second inode block, and an inode
\* of the first inode block is in use
C7_Witness ==
    /\ res.op = "i_put" /\ res.st = "ok"
    /\ superblock = SBTwoInodeBlocks
    /\ res.arg.inum = 3
    /\ res.arg.size > superblock.block_size
    /\ Got(device, 3) = <<"ok", res.arg>>
    /\ FtOf(device, 1) = "TDir"

\* the inodes of [1, ninodes) that i_get returns as Free
FreeInodes(dev, sb) == { i \in 1..(sb.ninodes - 1) : FtOf(dev, i) = "TFree" }

\* what C8 says of an i_alloc(ft) step
AllocatesLowestFree ==
    IF FreeInodes(device, superblock) = {}
    THEN res'.st = "NoFreeInode" /\ device' = device
    ELSE LET i == Min(FreeInodes(device, superblock))
         IN /\ res'.st = "ok" /\ res'.val = i /\ i # 0
            /\ Got(device', i)
                 = <<"ok", [IGet(device, i).val EXCEPT
                              !.ft = res'.arg, !.size = 0, !.nlink = 0]>>
            /\ \A j \in (0..(superblock.ninodes - 1)) \ {i} :
                 Got(device', j) = Got(device, j)

\* C8: i_alloc(ft) returns the smallest i in [1, ninodes) whose on-disk ft
\* is Free, after persisting ft, size 0 and nlink 0 for it and leaving all
\* other inodes unchanged; it fails with NoFreeInode, changing nothing, if
\* and only if no inode in [1, ninodes) is Free.
C8_AllocLowestFreeInode ==
    [][ res'.op = "i_alloc" => AllocatesLowestFree ]_vars

\* C8, for a superblock whose inode region has a slot for every inode number.
C8_AllocLowestFreeInodeInRegion ==
    [][ (res'.op = "i_alloc" /\ InodesInRegion(superblock)) => AllocatesLowestFree ]_vars

\* the data blocks i_free(i) is to release: the non-zero entries among the
\* first ceil(size / block_size) entries of direct_blocks
Released(ino, sb) ==
    { ino.direct_blocks[k] - sb.datastart :
        k \in { n \in 0..(NDIRECT - 1) :
                  n < CeilDiv(ino.size, sb.block_size) /\ ino.direct_blocks[n] # 0 } }

\* a successful i_free(i) step leaves inode i Free without direct blocks
LeavesInodeFree ==
    /\ FtOf(device', res'.arg) = "TFree"
    /\ IGet(device', res'.arg).val.direct_blocks = DirectBlocks(<<>>)

\* what C9 says of a successful i_free(i) step: the bits cleared are
\* exactly those of the blocks to release
FreesInodeAndItsBlocks ==
    /\ LeavesInodeFree
    /\ \A j \in 0..(superblock.ndatablocks - 1) :
         IF j \in Released(IGet(device, res'.arg).val, superblock)
         THEN BitmapBit(device', superblock, j) = 0
         ELSE ~ ( /\ BitmapBit(device, superblock, j) = 1
                  /\ BitmapBit(device', superblock, j) = 0 )

\* the same, with every other bit of the bitmap as it was
FreesInodeAndOnlyItsBlocks ==
    /\ LeavesInodeFree
    /\ \A j \in 0..(superblock.ndatablocks - 1) :
         BitmapBit(device', superblock, j)
           = IF j \in Released(IGet(device, res'.arg).val, superblock) THEN 0
             ELSE BitmapBit(device, superblock, j)

\* i_free(i) succeeds on an inode that is not Free and has nlink == 0
FreeOfUnlinked ==
    /\ res'.op = "i_free" /\ res'.st = "ok"
    /\ FtOf(device, res'.arg) \in {"TFile", "TDir"}
    /\ IGet(device, res'.arg).val.nlink = 0

\* C9: after a successful i_free(i) on a non-Free inode with nlink == 0,
\* i_get(i).ft == Free, its direct_blocks are all zero, exactly the data
\* blocks listed non-zero among the first ceil(size/block_size) entries have
\* their bit cleared; no other block has its bit cleared.
C9_FreeReleasesBlocks ==
    [][ FreeOfUnlinked => FreesInodeAndItsBlocks ]_vars

\* C9, for a superblock whose inode region has a slot for every inode
\* number; no other bit of the bitmap changes.
C9_FreeReleasesBlocksInRegion ==
    [][ (FreeOfUnlinked /\ InodesInRegion(superblock)) => FreesInodeAndOnlyItsBlocks ]_vars

\* what C10 says of a step of i_alloc or i_free
InodeLifecycle ==
    /\ ( /\ res'.op = "i_free"
         /\ FtOf(device, res'.arg) \in {"TFile", "TDir"}
         /\ IGet(device, res'.arg).val.nlink # 0 )
       => (res'.st = "ok" /\ device' = device)
    /\ \A j \in 0..(superblock.ninodes - 1) :
         /\ (FtOf(device, j) \in {"TFile", "TDir"} /\ FtOf(device', j) = "TFree")
            => /\ res'.op = "i_free" /\ res'.arg = j
               /\ IGet(device, j).val.nlink = 0
         /\ (FtOf(device, j) = "TFree" /\ FtOf(device', j) \in {"TFile", "TDir"})
            => (res'.op = "i_alloc" /\ res'.val = j)

\* C10: i_free(i) on a non-Free inode whose nlink != 0 returns success and
\* leaves the inode and the bitmap unchanged; under i_alloc and i_free an
\* inode goes from File/Dir to Free only through i_free while its nlink is
\* 0, and from Free to File/Dir only through i_alloc.
C10_InodeLifecycle ==
    [][ res'.op \in {"i_alloc", "i_free"} => InodeLifecycle ]_vars

\* C10, for a superblock whose inode region has a slot for every inode number.
C10_InodeLifecycleInRegion ==
    [][ (res'.op \in {"i_alloc", "i_free"} /\ InodesInRegion(superblock))
          => InodeLifecycle ]_vars

\* what C11 says of a successful i_trunc(inode) step; res.arg is the
\* caller's inode before the call and res.val the caller's inode after it
TruncatesInode ==
    LET before == res'.arg
        after == res'.val
    IN /\ \A j \in 0..(superblock.ndatablocks - 1) :
            IF j \in Released(before, superblock)
            THEN BitmapBit(device', superblock, j) = 0
            ELSE ~ ( /\ BitmapBit(device, superblock, j) = 1
                     /\ BitmapBit(device', superblock, j) = 0 )
       /\ after = [before EXCEPT !.size = 0, !.direct_blocks = DirectBlocks(<<>>)]
       /\ Got(device', before.inum) = <<"ok", after>>

\* i_trunc(inode) succeeds on an inode of the file system
TruncOfInode ==
    /\ res'.op = "i_trunc" /\ res'.st = "ok"
    /\ res'.arg.inum < superblock.ninodes

\* C11: a successful i_trunc(inode) clears the bitmap bit of every non-zero
\* entry among the first ceil(size/block_size) entries of direct_blocks and
\* of no other block, sets size and all direct_blocks to 0, leaves ft and
\* nlink unchanged, and persists the result: i_get(inode.inum) equals the
\* caller's inode.
C11_TruncReleasesBlocks ==
    [][ TruncOfInode => TruncatesInode ]_vars

\* C11, for a superblock whose inode region has a slot for every inode number.
C11_TruncReleasesBlocksInRegion ==
    [][ (TruncOfInode /\ InodesInRegion(superblock)) => TruncatesInode ]_vars

\* an i_trunc of a file of two blocks has succeeded
C11_TruncatedTwoBlocks ==
    /\ res.op = "i_trunc" /\ res.st = "ok"
    /\ InodesInRegion(superblock)
    /\ res.arg.inum < superblock.ninodes
    /\ res.arg.size > superblock.block_size
    /\ Cardinality(Released(res.arg, superblock)) = 2

-----------------------------------------------------------------------------
(* Properties of mkfs and mountfs *)

\* the superblock that block 0 of the device deserializes to at offset 0
StoredSB(dev) == DeserSuperBlock(ReadCells(dev.blocks[0], 0, SUPERBLOCK_SIZE))

\* mkfs(sb) has succeeded: block 0 holds sb and sup_get() returns sb
MkfsSucceeded ==
    /\ res.st = "ok"
    /\ StoredSB(device) = res.arg
    /\ sup_get(superblock) = res.arg

\* C12: the block layer's mkfs(path, sb) fails with InvalidSuperBlock
\* whenever sb_valid(sb) is false; otherwise it succeeds with block 0
\* deserializing at offset 0 to sb and sup_get() returning sb.
C12_MkfsValidates ==
    res.op = "mkfs" =>
        /\ sb_valid(res.arg, overflow_checks) = "false" => res.st = "InvalidSuperBlock"
        /\ sb_valid(res.arg, overflow_checks) = "true" => MkfsSucceeded

\* C12, amended: when sb_valid(sb) is true, mkfs succeeds as stated if a
\* block can hold the serialized superblock, and otherwise returns the
\* error of serialize_into.
C12_MkfsValidatesOrBlockTooSmall ==
    res.op = "mkfs" =>
        /\ sb_valid(res.arg, overflow_checks) = "false" => res.st = "InvalidSuperBlock"
        /\ sb_valid(res.arg, overflow_checks) = "true" =>
             IF res.arg.block_size >= SUPERBLOCK_SIZE THEN MkfsSucceeded
             ELSE res.st = "APIError" /\ ~Mounted

\* mkfs has stored a valid superblock with inodes
C12_Witness ==
    /\ res.op = "mkfs" /\ res.st = "ok"
    /\ sb_valid(res.arg, overflow_checks) = "true"
    /\ res.arg.ninodes = 2
    /\ StoredSB(device) = res.arg

\* the device's geometry is that of superblock sb
SameGeometry(dev, sb) == dev.block_size = sb.block_size /\ dev.nblocks = sb.nblocks

\* C13: mountfs(dev) fails with InvalidSuperBlock when the superblock stored
\* in block 0 does not satisfy sb_valid (checked first), otherwise with
\* IncompatibleDeviceSuperBlock when dev.block_size or dev.nblocks differs
\* from it, and otherwise succeeds with sup_get() equal to it; mounting the
\* device of a file system created by mkfs(sb) succeeds and yields sb.
C13_MountValidatesThenCompares ==
    /\ res.op = "mountfs" =>
         LET stored == StoredSB(device)
             valid == sb_valid(stored, overflow_checks)
         IN /\ valid = "false" => res.st = "InvalidSuperBlock"
            /\ (valid = "true" /\ ~SameGeometry(device, stored))
                 => res.st = "IncompatibleDeviceSuperBlock"
            /\ (valid = "true" /\ SameGeometry(device, stored))
                 => /\ res.st = "ok"
                    /\ sup_get(superblock) = stored
            /\ res.st # "ok" => ~Mounted
    /\ (res.op = "mkfs" /\ res.st = "ok") =>
         /\ mountfs(device, overflow_checks).st = "ok"
         /\ mountfs(device, overflow_checks).val = res.arg

\* mountfs has refused a stored superblock that is invalid and also
\* disagrees with the device
C13_Witness ==
    /\ res.op = "mountfs" /\ res.st = "InvalidSuperBlock"
    /\ sb_valid(StoredSB(device), overflow_checks) = "false"
    /\ ~SameGeometry(device, StoredSB(device))

\* mountfs has mounted the device of a file system made by mkfs
C13_MountedAgain ==
    /\ res.op = "mountfs" /\ res.st = "ok"
    /\ superblock \in MkfsSBs

-----------------------------------------------------------------------------
(* Properties of the directory layer *)

\* what C14 says of the file system after mkfs
RootDirOnly ==
    /\ Got(device, 1) = <<"ok", Inode(1, DInode("TDir", 1, 0, DirectBlocks(<<>>)))>>
    /\ Occupied(device, superblock, IGet(device, 1).val) = {}
    /\ \A i \in (0..(superblock.ninodes - 1)) \ {1} : FtOf(device, i) = "TFree"

\* C14: after the directory layer's mkfs, inode 1 has ft == Dir, nlink == 1,
\* size == 0 and no directory entries, and every other inode in [0, ninodes)
\* is Free.
C14_MkfsRootDir == res.op = "mkfs" => RootDirOnly

\* C14, for a superblock whose inode region has a slot for every inode number.
C14_MkfsRootDirInRegion ==
    (res.op = "mkfs" /\ InodesInRegion(superblock)) => RootDirOnly

\* the layer's dirlookup on the current state
DirLookup(dev, inode, name) ==
    dirlookup(dev, sup_get(superblock), inode_start, nb_inodes_block,
              overflow_checks, inode, name)

\* the last call was a successful dirlink
LinkedOk == res.op = "dirlink" /\ res.st = "ok"

\* what C15 says of the state after a successful dirlink: dirlookup of the
\* same name in the caller's directory inode
LookupFindsLinked ==
    LET found == DirLookup(device, res.val.inode, res.arg.name)
    IN /\ found.st = "ok"
       /\ found.val.off = res.val.off
       /\ found.val.inode.inum = res.arg.inum
       /\ Got(device, res.arg.inum) = <<"ok", found.val.inode>>

\* C15: if dirlink(d, name, inum) succeeds returning offset o, then an
\* immediately following dirlookup(d, name) succeeds and returns offset o
\* together with the inode whose number is inum.
C15_LinkThenLookup == LinkedOk => LookupFindsLinked

\* C15, for a superblock whose inode region has a slot for every inode number.
C15_LinkThenLookupInRegion ==
    (LinkedOk /\ InodesInRegion(superblock)) => LookupFindsLinked

\* a dirlink has put an entry into the second slot of the second block of
\* a directory
C15_LinkedInSecondBlock ==
    /\ LinkedOk /\ InodesInRegion(superblock)
    /\ res.val.off = superblock.block_size + DIRENTRY_SIZE

\* the slots the scan of dirlookup visits: in each block, the slots up to
\* the first whose end reaches the size of the directory
Scanned(sb, inode) ==
    { sl \in DirSlots(sb, inode) :
        \A j \in 0..(sl[2] - 1) : (j + 1) * DIRENTRY_SIZE < inode.size }

\* name is the name of an entry in a slot that scan visits
NamePresent(dev, sb, inode, name) ==
    \E sl \in Scanned(sb, inode) :
        /\ EntryAt(dev, inode, sl).inum # 0
        /\ get_name_str(EntryAt(dev, inode, sl)) = Codes(name)

\* the first precondition of dirlink(inode, name, inum) that does not hold,
\* as the error it names; "none" when all four hold
FirstUnmet(dev, sb, inode, name, inum) ==
    IF inode.ft # "TDir" THEN "InodeWrongType"
    ELSE IF FtOf(dev, inum) = "TFree" THEN "DirectoryInodeNotInUse"
    ELSE IF ~NameAccepted(name) THEN "InvalidEntryName"
    ELSE IF NamePresent(dev, sb, inode, name) THEN "InvalidEntryName"
    ELSE "none"

\* a step that is a call of dirlink for which i_get of the inode to link
\* returns an inode, or whose directory is no Dir
LinkOfInode ==
    /\ res'.op = "dirlink"
    /\ res'.st # "panic"
    /\ \/ res'.arg.inode.ft # "TDir"
       \/ IGet(device, res'.arg.inum).st = "ok"

\* what C16 says of such a step
FailsOnFirstUnmet ==
    LET unmet == FirstUnmet(device, superblock, res'.arg.inode, res'.arg.name,
                            res'.arg.inum)
    IN /\ unmet # "none" =>
            /\ res'.st = unmet
            /\ res'.val.inode = res'.arg.inode
            /\ device' = device
       /\ unmet = "none" =>
            res'.st \notin {"InodeWrongType", "DirectoryInodeNotInUse", "InvalidEntryName"}

\* C16: dirlink checks its preconditions in this order and fails on the first
\* that does not hold: directory inode not Dir -> InodeWrongType; inode inum
\* Free -> DirectoryInodeNotInUse; name invalid -> InvalidEntryName; name
\* already present in the directory -> InvalidEntryName. In each of these
\* failures the inode in memory and the device (the inode on disk, the entry
\* blocks, the bitmap, nlink of the inode inum) are unchanged.
C16_PreconditionOrder == [][LinkOfInode => FailsOnFirstUnmet]_vars

\* C16, for a superblock whose inode region has a slot for every inode number.
C16_PreconditionOrderInRegion ==
    [][(LinkOfInode /\ InodesInRegion(superblock)) => FailsOnFirstUnmet]_vars

\* a dirlink of an invalid name for a Free inode failed with
\* DirectoryInodeNotInUse
C16_FreeBeforeName ==
    /\ res.op = "dirlink" /\ res.st = "DirectoryInodeNotInUse"
    /\ ~NameAccepted(res.arg.name)
    /\ InodesInRegion(superblock)

\* a dirlink of a name that the directory holds failed with InvalidEntryName
C16_DuplicateRefused ==
    /\ res.op = "dirlink" /\ res.st = "InvalidEntryName"
    /\ NameAccepted(res.arg.name)
    /\ NamePresent(device, superblock, res.arg.inode, res.arg.name)
    /\ InodesInRegion(superblock)

\* a step that is a successful call of dirlink
LinkStep == res'.op = "dirlink" /\ res'.st = "ok"

\* by how much a dirlink(inode, name, inum) is to raise nlink of inode i
LinkCount(inode, inum, i) == IF i = inum /\ inum # inode.inum THEN 1 ELSE 0

C17_SelfLinked ==
    /\ LinkedOk
    /\ res.arg.inum = res.arg.inode.inum
    /\ res.val.off > 0
    /\ IGet(device, res.arg.inum).st = "ok"
    /\ IGet(device, res.arg.inum).val.nlink = res.arg.inode.nlink

EmptySlots(dev, sb, inode) == DirSlots(sb, inode) \ Occupied(dev, sb, inode)

\* the empty slot of lowest offset
LowestEmpty(dev, sb, inode) ==
    CHOOSE sl \in EmptySlots(dev, sb, inode) :
        \A other \in EmptySlots(dev, sb, inode) : SlotOffset(sb, sl) <= SlotOffset(sb, other)

Max(a, b) == IF a >= b THEN a ELSE b

\* no bit of the bitmap differs between two devices
SameBitmap(dev, after, sb) ==
    \A i \in 0..(sb.ndatablocks - 1) : BitmapBit(after, sb, i) = BitmapBit(dev, sb, i)

\* a successful dirlink on a directory that has an empty slot
LinkWithEmptySlot ==
    LinkStep /\ EmptySlots(device, superblock, res'.arg.inode) # {}

\* what C18 says of such a step
FillsLowestEmpty ==
    LET d == res'.arg.inode
        sl == LowestEmpty(device, superblock, d)
        o == SlotOffset(superblock, sl)
        size == Max(d.size, o + DIRENTRY_SIZE)
    IN /\ res'.val.off = o
       /\ EntryAt(device', d, sl) = new_de(res'.arg.inum, res'.arg.name)
       /\ SameBitmap(device, device', superblock)
       /\ res'.val.inode = [d EXCEPT !.size = size]
       /\ IGet(device', d.inum).st = "ok"
       /\ IGet(device', d.inum).val.size = size
       /\ IGet(device', d.inum).val.direct_blocks = d.direct_blocks

C18_SizeKept ==
    /\ LinkedOk /\ InodesInRegion(superblock)
    /\ res.val.off + DIRENTRY_SIZE < res.arg.inode.size
    /\ res.val.inode.size = res.arg.inode.size

\* a successful dirlink on a directory whose existing blocks have no empty
\* slot and that lists fewer than NDIRECT blocks
LinkWithoutEmptySlot ==
    /\ LinkStep
    /\ EmptySlots(device, superblock, res'.arg.inode) = {}
    /\ CeilDiv(res'.arg.inode.size, superblock.block_size) < NDIRECT

\* data block i is the one block the step allocates
AllocatesOnly(i) ==
    /\ BitmapBit(device, superblock, i) = 0
    /\ BitmapBit(device', superblock, i) = 1
    /\ \A j \in (0..(superblock.ndatablocks - 1)) \ {i} :
          BitmapBit(device', superblock, j) = BitmapBit(device, superblock, j)

\* what C19 says of such a step; the slots after the first of the new block
\* are empty, the first-fit rule of dirlink fills them next
LinksInNewBlock ==
    LET d == res'.arg.inode
        k == CeilDiv(d.size, superblock.block_size)
        after == res'.val.inode
    IN /\ res'.val.off = k * superblock.block_size
       /\ \E i \in 0..(superblock.ndatablocks - 1) :
             /\ AllocatesOnly(i)
             /\ after = [d EXCEPT !.size = k * superblock.block_size + DIRENTRY_SIZE,
                                  !.direct_blocks[k] = superblock.datastart + i]
       /\ Got(device', d.inum) = <<"ok", after>>
       /\ EntryAt(device', after, <<k, 0>>) = new_de(res'.arg.inum, res'.arg.name)
       /\ \A j \in 1..((superblock.block_size \div DIRENTRY_SIZE) - 1) :
             <<k, j>> \in EmptySlots(device', superblock, after)

\* a successful dirlink on a directory whose size ends with slot j - 1 of its
\* last block, every slot up to there occupied and slot j empty
LinkAfterLastEntry ==
    /\ LinkStep
    /\ \E sl \in EmptySlots(device, superblock, res'.arg.inode) :
          /\ sl[2] > 0
          /\ res'.arg.inode.size = SlotOffset(superblock, sl)
          /\ \A other \in DirSlots(superblock, res'.arg.inode) :
                SlotOffset(superblock, other) < SlotOffset(superblock, sl)
                   => other \in Occupied(device, superblock, res'.arg.inode)

\* it fills the slot after the last entry and the size grows by one entry
FillsFollowingSlot ==
    /\ res'.val.off = res'.arg.inode.size
    /\ res'.val.inode.size = res'.arg.inode.size + DIRENTRY_SIZE
    /\ IGet(device', res'.arg.inode.inum).st = "ok"
    /\ IGet(device', res'.arg.inode.inum).val.size = res'.arg.inode.size + DIRENTRY_SIZE

\* C19: when every slot of the directory's existing blocks is occupied and
\* k = ceil(size / block_size) < NDIRECT, a successful dirlink allocates
\* exactly one data block via b_alloc, writes the entry at offset 0 of it, sets
\* direct_blocks[k] to datastart + the allocated index and size to
\* k * block_size + DIRENTRY_SIZE, persists the inode, and returns
\* k * block_size; subsequent dirlinks fill the following slots of that block,
\* growing size by DIRENTRY_SIZE each time.
C19_NewBlock ==
    [][/\ LinkWithoutEmptySlot => LinksInNewBlock
       /\ LinkAfterLastEntry => FillsFollowingSlot]_vars

\* C19, for a superblock whose inode region has a slot for every inode number.
C19_NewBlockInRegion ==
    [][InodesInRegion(superblock) =>
          /\ LinkWithoutEmptySlot => LinksInNewBlock
          /\ LinkAfterLastEntry => FillsFollowingSlot]_vars

\* a dirlink has given a directory with one full block a second block
C19_SecondBlockLinked ==
    /\ LinkedOk /\ InodesInRegion(superblock)
    /\ res.arg.inode.size = 2 * DIRENTRY_SIZE
    /\ res.val.off = superblock.block_size
    /\ res.val.inode.direct_blocks[1] # 0

\* the dirlink after that has filled the second slot of the second block
C19_FollowingSlotLinked ==
    /\ LinkedOk /\ InodesInRegion(superblock)
    /\ res.arg.inode.size = superblock.block_size + DIRENTRY_SIZE
    /\ res.val.off = res.arg.inode.size
    /\ res.val.inode.size = superblock.block_size + 2 * DIRENTRY_SIZE

\* a call of dirlink whose preconditions hold, on a directory that lists
\* NDIRECT blocks and has no empty slot in them
LinkIntoFull ==
    /\ res'.op = "dirlink"
    /\ res'.st # "panic"
    /\ IGet(device, res'.arg.inum).st = "ok"
    /\ FirstUnmet(device, superblock, res'.arg.inode, res'.arg.name, res'.arg.inum) = "none"
    /\ EmptySlots(device, superblock, res'.arg.inode) = {}
    /\ CeilDiv(res'.arg.inode.size, superblock.block_size) = NDIRECT

\* what C20 says of such a call
FailsBlocksFull ==
    /\ res'.st = "InodeBlocksFull"
    /\ res'.val.inode = res'.arg.inode
    /\ Got(device', res'.arg.inode.inum) = Got(device, res'.arg.inode.inum)
    /\ Got(device', res'.arg.inum) = Got(device, res'.arg.inum)
    /\ SameBitmap(device, device', superblock)
    /\ device' = device

\* C20: when a directory has no usable slot in its existing blocks and
\* ceil(size / block_size) = NDIRECT, dirlink fails with InodeBlocksFull,
\* allocates no data block, and leaves the directory inode's size and
\* direct_blocks (in memory and on disk), the bitmap and the nlink of the
\* inode inum unchanged.
C20_BlocksFull == [][LinkIntoFull => FailsBlocksFull]_vars

\* C20, for a superblock whose inode region has a slot for every inode number.
C20_BlocksFullInRegion ==
    [][(LinkIntoFull /\ InodesInRegion(superblock)) => FailsBlocksFull]_vars

\* a dirlink of a new name into a directory with NDIRECT full blocks has
\* failed with InodeBlocksFull
C20_FullRefused ==
    /\ res.op = "dirlink" /\ res.st = "InodeBlocksFull"
    /\ InodesInRegion(superblock)
    /\ Cardinality(Occupied(device, superblock, res.arg.inode))
          = NDIRECT * (superblock.block_size \div DIRENTRY_SIZE)
    /\ ~NamePresent(device, superblock, res.arg.inode, res.arg.name)

\* the non-empty slots of a directory that start within [0, size) and hold name
Matching(dev, sb, inode, name) ==
    { sl \in Occupied(dev, sb, inode) :
        /\ SlotOffset(sb, sl) < inode.size
        /\ get_name_str(EntryAt(dev, inode, sl)) = Codes(name) }

\* the matching slot of lowest offset
LowestMatching(dev, sb, inode, name) ==
    CHOOSE sl \in Matching(dev, sb, inode, name) :
        \A other \in Matching(dev, sb, inode, name) :
            SlotOffset(sb, sl) <= SlotOffset(sb, other)

\* what C21 says of the result of dirlookup(inode, name)
LooksUp(dev, sb, inode, name, r) ==
    IF inode.ft # "TDir" THEN r.st = "InodeWrongType"
    ELSE IF Matching(dev, sb, inode, name) = {} THEN r.st = "NoEntryFoundForName"
    ELSE LET sl == LowestMatching(dev, sb, inode, name)
         IN /\ r.st = "ok"
            /\ r.val.off = SlotOffset(sb, sl)
            /\ Got(dev, EntryAt(dev, inode, sl).inum) = <<"ok", r.val.inode>>

\* C21: dirlookup(d, name) on a Dir inode succeeds if and only if some
\* non-empty slot within the directory's logical content [0, d.size) holds
\* exactly that name, and then returns the lowest such slot's absolute byte
\* offset together with i_get of that slot's inum; otherwise it fails with
\* NoEntryFoundForName; on a non-Dir inode it fails with InodeWrongType.
C21_LookupWithinSize ==
    res.op = "dirlookup" =>
        LooksUp(device, superblock, res.arg.inode, res.arg.name, res)

\* C21, for a superblock whose inode region has a slot for every inode number.
C21_LookupWithinSizeInRegion ==
    (res.op = "dirlookup" /\ InodesInRegion(superblock)) =>
        LooksUp(device, superblock, res.arg.inode, res.arg.name, res)

\* C21, for a superblock whose inode region has a slot for every inode
\* number and a directory inode as i_get returns it.
C21_LookupOfCurrent ==
    ( /\ res.op = "dirlookup"
      /\ InodesInRegion(superblock)
      /\ res.arg.inode \in DirInodes(device, superblock) ) =>
        LooksUp(device, superblock, res.arg.inode, res.arg.name, res)

\* a dirlookup has found a name in the second block of a directory
C21_FoundInSecondBlock ==
    /\ res.op = "dirlookup" /\ res.st = "ok"
    /\ InodesInRegion(superblock)
    /\ res.arg.inode \in DirInodes(device, superblock)
    /\ res.val.off > superblock.block_size

-----------------------------------------------------------------------------
(* Names: set_name_str and new_de on their own *)

MaxNameLen == DIRNAME_SIZE + 1

\* every name of up to MaxNameLen characters
NameInputs ==
    UNION { [1..n -> { Chars[k] : k \in 1..Len(Chars) }] : n \in 0..MaxNameLen }

\* the entries handed to set_name_str: a new one and one that has a name
EntryInputs == { DefaultDirEntry, DirEntry(1, <<CharCode("b"), 0>>) }

InitName ==
    /\ superblock = NoSB
    /\ overflow_checks = FALSE
    /\ device = NewDevice(0, 0)
    /\ inode_start = 0
    /\ nb_inodes_block = 0
    /\ res = Res("none", NoVal, "ok", NoVal)

Set_name_str == \E de \in EntryInputs, name \in NameInputs :
    /\ res' = Res("set_name_str", [de |-> de, name |-> name],
                  set_name_str_returns(name), set_name_str(de, name))
    /\ UNCHANGED <<device, superblock, inode_start, nb_inodes_block, overflow_checks>>

New_de == \E inum \in {1, 2}, name \in NameInputs :
    /\ res' = Res("new_de", [inum |-> inum, name |-> name],
                  new_de_returns(inum, name), new_de(inum, name))
    /\ UNCHANGED <<device, superblock, inode_start, nb_inodes_block, overflow_checks>>

NextName == Set_name_str \/ New_de

SpecName == InitName /\ [][NextName]_vars

\* the names of C22, their length counted in characters
ValidNameOfChars(name) ==
    /\ name # <<>>
    /\ Len(name) <= DIRNAME_SIZE
    /\ \/ name \in { <<".">>, <<".", ".">> }
       \/ \A k \in 1..Len(name) : is_alphanumeric(name[k])

\* the names of C22, their length counted in bytes of UTF-8
ValidNameOfBytes(name) ==
    /\ name # <<>>
    /\ len(name) <= DIRNAME_SIZE
    /\ \/ name \in { <<".">>, <<".", ".">> }
       \/ \A k \in 1..Len(name) : is_alphanumeric(name[k])

\* what C22 says of a call of set_name_str or new_de, given which names are valid
NameRules(valid) ==
    /\ res.op = "set_name_str" =>
          /\ res.st = "Some" <=> valid
          /\ res.st = "None" => res.val = res.arg.de
          /\ res.st = "Some" =>
                /\ res.val.inum = res.arg.de.inum
                /\ get_name_str(res.val) = Codes(res.arg.name)
    /\ res.op = "new_de" =>
          /\ res.st = "None" <=> ~valid
          /\ res.st = "Some" =>
                /\ res.val.inum = res.arg.inum
                /\ get_name_str(res.val) = Codes(res.arg.name)

\* C22: set_name_str(de, name) succeeds if and only if name is non-empty, its
\* length is <= DIRNAME_SIZE, and name is ".", ".." or consists only of
\* alphanumeric characters; on failure de is unchanged, and new_de(inum, name)
\* returns None exactly when set_name_str would fail.  Here the length is the
\* number of characters of the name.
C22_NameRulesOfChars ==
    res.op \in {"set_name_str", "new_de"} => NameRules(ValidNameOfChars(res.arg.name))

\* C22 with the length of the name counted in bytes of UTF-8.
C22_NameRulesOfBytes ==
    res.op \in {"set_name_str", "new_de"} => NameRules(ValidNameOfBytes(res.arg.name))

\* set_name_str has stored a name of DIRNAME_SIZE characters in an entry
\* that had another name
C22_Witness ==
    /\ res.op = "set_name_str" /\ res.st = "Some"
    /\ Len(res.arg.name) = DIRNAME_SIZE
    /\ res.arg.de # DefaultDirEntry
    /\ res.val # res.arg.de

\* set_name_str has refused a name and left the entry as it was
C22_Refused ==
    /\ res.op = "set_name_str" /\ res.st = "None"
    /\ Len(res.arg.name) = DIRNAME_SIZE + 1
    /\ res.val = res.arg.de

-----------------------------------------------------------------------------
(* Properties of the read/write layer *)

\* a step that is a call of i_read
ReadStep == res'.op = "i_read"

\* C23: i_read with off = inode.size returns 0 bytes read, and with
\* off > inode.size fails with IndexOutOfBounds; in both cases buf and the
\* file system state are unchanged.
C23_ReadAtOrPastEnd ==
    [][(ReadStep /\ res'.arg.off >= res'.arg.inode.size) =>
          /\ res'.arg.off = res'.arg.inode.size =>
                (res'.st = "ok" /\ res'.val.count = 0)
          /\ res'.arg.off > res'.arg.inode.size => res'.st = "IndexOutOfBounds"
          /\ res'.val.buf = res'.arg.buf
          /\ device' = device]_vars

\* an i_read at the end of a file that has bytes has returned 0
C23_ReadAtEnd ==
    /\ res.op = "i_read" /\ res.st = "ok"
    /\ res.arg.inode.size > 0
    /\ res.arg.off = res.arg.inode.size
    /\ res.val.count = 0

\* an i_read past the end of a file has failed
C23_ReadPastEnd ==
    /\ res.op = "i_read" /\ res.st = "IndexOutOfBounds"
    /\ res.arg.off = res.arg.inode.size + 1

\* the smallest of three numbers
Min3(a, b, c) == Min({a, b, c})

\* the first ceil(size / block_size) direct blocks of inode are allocated
BlocksListed(sb, inode) ==
    \A k \in 0..(CeilDiv(inode.size, sb.block_size) - 1) : inode.direct_blocks[k] # 0

\* the byte at offset o of the file of inode
FileByte(dev, sb, inode, o) ==
    dev.blocks[inode.direct_blocks[o \div sb.block_size]][o % sb.block_size]

\* res is an i_read of a file with its blocks listed, from inside the file
ReadInside ==
    /\ res.op = "i_read"
    /\ res.arg.off < res.arg.inode.size
    /\ BlocksListed(superblock, res.arg.inode)

\* C24: for an inode whose first ceil(size / block_size) direct_blocks are
\* non-zero and off < inode.size, i_read returns exactly
\* min(n, buf.len(), inode.size - off), byte j of buf below that count is the
\* byte at offset (off + j) mod block_size of block
\* direct_blocks[(off + j) / block_size], and no byte at or beyond inode.size
\* is transferred.
C24_ReadWithinSize ==
    ReadInside =>
        /\ res.st = "ok"
        /\ res.val.count = Min3(res.arg.n, Len(res.arg.buf),
                                res.arg.inode.size - res.arg.off)
        /\ \A j \in 0..(res.val.count - 1) :
              /\ res.arg.off + j < res.arg.inode.size
              /\ res.val.buf[j + 1] = FileByte(device, superblock, res.arg.inode,
                                               res.arg.off + j)

\* an i_read from offset 0 returns min(n, buf.len(), inode.size) bytes, the
\* bytes of the file
C24_ReadFromStart ==
    (ReadInside /\ res.arg.off = 0) =>
        /\ res.st = "ok"
        /\ res.val.count = Min3(res.arg.n, Len(res.arg.buf), res.arg.inode.size)
        /\ \A j \in 0..(res.val.count - 1) :
              res.val.buf[j + 1] = FileByte(device, superblock, res.arg.inode, j)

\* an i_read from the last byte of a file has returned more than one byte
C24_ReadBeyondSize ==
    /\ ReadInside /\ res.st = "ok"
    /\ res.arg.off = res.arg.inode.size - 1
    /\ res.val.count > 1

\* an i_read from offset 0 has crossed into the second block of the file
C24_ReadTwoBlocks ==
    /\ ReadInside /\ res.st = "ok"
    /\ res.arg.off = 0
    /\ res.val.count > superblock.block_size

\* a step that is a call of i_write
WriteStep == res'.op = "i_write"

\* the errors i_write raises before it changes anything
WriteRefusals == {"IndexOutOfBounds", "BufTooSmall", "WriteTooLarge"}

\* the error i_write has to raise for inode, buf, off and n, "none" if none
WriteRefusal(sb, inode, buf, off, n) ==
    IF off > inode.size THEN "IndexOutOfBounds"
    ELSE IF Len(buf) < n THEN "BufTooSmall"
    ELSE IF off + n > NDIRECT * sb.block_size THEN "WriteTooLarge"
    ELSE "none"

\* C25: i_write fails with IndexOutOfBounds when off > inode.size, else with
\* BufTooSmall when buf.len() < n, else with WriteTooLarge when
\* off + n > NDIRECT * block_size; in each of these failures the in-memory
\* inode, the on-disk inode, the bitmap and all data blocks are unchanged.
C25_WriteRefused ==
    [][WriteStep =>
          LET refusal == WriteRefusal(superblock, res'.arg.inode, res'.arg.buf,
                                      res'.arg.off, res'.arg.n)
          IN /\ refusal # "none" => res'.st = refusal
             /\ res'.st \in WriteRefusals =>
                   /\ res'.st = refusal
                   /\ res'.val = res'.arg.inode
                   /\ device' = device]_vars

\* a write of NDIRECT * block_size + 1 bytes to an empty file has failed with
\* WriteTooLarge and the size of the file is still 0
C25_TooLargeRefused ==
    /\ res.op = "i_write" /\ res.st = "WriteTooLarge"
    /\ res.arg.inode.size = 0
    /\ res.arg.n = MaxFileSize(superblock) + 1
    /\ Len(res.arg.buf) >= res.arg.n
    /\ res.val.size = 0
    /\ IGet(device, res.arg.inode.inum).val.size = 0

\* a write that is too large, from a buffer that is too small, has failed
\* with BufTooSmall
C25_SmallBeforeLarge ==
    /\ res.op = "i_write" /\ res.st = "BufTooSmall"
    /\ res.arg.off + res.arg.n > MaxFileSize(superblock)

\* a write from past the end of the file, from a buffer that is too small,
\* has failed with IndexOutOfBounds
C25_BoundsBeforeSmall ==
    /\ res.op = "i_write" /\ res.st = "IndexOutOfBounds"
    /\ Len(res.arg.buf) < res.arg.n

\* the data blocks that are free in the bitmap
FreeBlocks(dev, sb) == { b \in 0..(sb.ndatablocks - 1) : BitmapBit(dev, sb, b) = 0 }

\* res is an i_write that nothing stands in the way of: off <= inode.size,
\* buf holds n bytes and off + n fits in the direct blocks
WriteAllowed ==
    /\ res.op = "i_write"
    /\ WriteRefusal(superblock, res.arg.inode, res.arg.buf, res.arg.off, res.arg.n) = "none"

\* i_read of the n bytes from off of inode, into a buffer of n zeros, gives
\* the first n bytes of buf
ReadsBack(dev, sb, inode, buf, off, n) ==
    LET read == i_read(dev, sb, inode, Zeros(n), off, n)
    IN /\ read.st = "ok"
       /\ read.val.count = n
       /\ \A j \in 1..n : read.val.buf[j] = buf[j]

\* C26: for any inode, any off <= inode.size and any n with
\* off + n <= NDIRECT * block_size and buf.len() >= n, i_write(inode, buf,
\* off, n) succeeds, and an i_read(inode, out, off, n) that follows it
\* immediately returns n and leaves out[..n] equal to buf[..n].
C26_WriteThenRead ==
    WriteAllowed =>
        /\ res.st = "ok"
        /\ ReadsBack(device, superblock, res.val, res.arg.buf, res.arg.off, res.arg.n)

\* the same for a write to an empty file
C26_WriteThenReadOfEmpty ==
    (WriteAllowed /\ res.arg.inode.size = 0) =>
        /\ res.st = "ok"
        /\ ReadsBack(device, superblock, res.val, res.arg.buf, res.arg.off, res.arg.n)

\* a write to an empty file has filled all the direct blocks
C26_FullFileWritten ==
    /\ WriteAllowed /\ res.st = "ok"
    /\ res.arg.inode.size = 0
    /\ res.arg.n = MaxFileSize(superblock)

\* an allowed write has stopped the program although data blocks were free
C26_WritePanics ==
    /\ WriteAllowed /\ res.st = "panic"
    /\ FreeBlocks(device, superblock) # {}

\* an allowed write has succeeded and its bytes are not read back
C26_NotReadBack ==
    /\ WriteAllowed /\ res.st = "ok"
    /\ ~ReadsBack(device, superblock, res.val, res.arg.buf, res.arg.off, res.arg.n)

\* res is an i_write that has succeeded
WriteOk == res.op = "i_write" /\ res.st = "ok"

\* C27: after every successful i_write(inode, buf, off, n), inode.size is
\* max(old size, off + n), also when off + n is exactly the end of the last
\* block already allocated, and the on-disk inode that i_get(inode.inum)
\* returns equals the caller's in-memory inode.
C27_SizeAfterWrite ==
    WriteOk =>
        /\ res.val.size = Max(res.arg.inode.size, res.arg.off + res.arg.n)
        /\ IGet(device, res.val.inum).st = "ok"
        /\ IGet(device, res.val.inum).val = res.val

\* the same for writes that do not end on the end of the last block
\* allocated before the write
C27_SizeAfterWriteInsideBlock ==
    (WriteOk /\ res.arg.off + res.arg.n #
                   CeilDiv(res.arg.inode.size, superblock.block_size)
                       * superblock.block_size) =>
        /\ res.val.size = Max(res.arg.inode.size, res.arg.off + res.arg.n)
        /\ IGet(device, res.val.inum).st = "ok"
        /\ IGet(device, res.val.inum).val = res.val

\* a write inside the last block has made the file longer
C27_GrownInsideBlock ==
    /\ WriteOk
    /\ res.arg.inode.size > 0
    /\ res.arg.off + res.arg.n > res.arg.inode.size
    /\ res.arg.off + res.arg.n < CeilDiv(res.arg.inode.size, superblock.block_size)
                                     * superblock.block_size
    /\ res.val.size = res.arg.off + res.arg.n

\* a write up to the end of the last block has left the size as it was
C27_SizeKeptAtBlockEnd ==
    /\ WriteOk
    /\ res.arg.inode.size > 0
    /\ res.arg.off + res.arg.n > res.arg.inode.size
    /\ res.val.size = res.arg.inode.size

-----------------------------------------------------------------------------
(* Properties of block ownership *)

\* the places <<inum, k>> of the direct blocks that hold the content of the
\* inodes in use: the first ceil(size / block_size) of each
OwnedPlaces(dev, sb) ==
    { pl \in (1..(sb.ninodes - 1)) \X (0..(NDIRECT - 1)) :
        \E ino \in InUse(dev, sb) :
            /\ ino.inum = pl[1]
            /\ pl[2] < CeilDiv(ino.size, sb.block_size) }

\* the block listed at a place
BlockAt(dev, pl) == IGet(dev, pl[1]).val.direct_blocks[pl[2]]

\* no block is listed at two places
NoSharedBlock(dev, sb) ==
    \A pl \in OwnedPlaces(dev, sb), ql \in OwnedPlaces(dev, sb) :
        (pl # ql /\ BlockAt(dev, pl) # 0) => BlockAt(dev, pl) # BlockAt(dev, ql)

\* C28: starting from mkfs, after any sequence of i_alloc, i_write, dirlink,
\* i_trunc and i_free in which every call is given the inode's current
\* value, no data block index appears among the first
\* ceil(size / block_size) direct_blocks entries of two distinct non-Free
\* inodes, nor twice within one inode.
C28_NoSharedBlock == NoSharedBlock(device, superblock)

\* the same when every inode lies in the inode region
C28_NoSharedBlockInRegion ==
    InodesInRegion(superblock) => NoSharedBlock(device, superblock)

\* two inodes in use hold content in blocks, and one of them in two
C28_BlocksOwned ==
    /\ InodesInRegion(superblock)
    /\ \E pl \in OwnedPlaces(device, superblock), ql \in OwnedPlaces(device, superblock) :
          /\ pl[1] # ql[1]
          /\ BlockAt(device, pl) # 0 /\ BlockAt(device, ql) # 0
          /\ <<pl[1], 1>> \in OwnedPlaces(device, superblock)

-----------------------------------------------------------------------------
(* Properties of the superblock *)

\* a step that is a call of sup_put that returns Ok
SupPutStep == res'.op = "sup_put" /\ res'.st = "ok"

\* the blocks of dev after block 0
OtherBlocks(dev) == 1..(dev.nblocks - 1)

\* C29: after sup_put(sup) succeeds, sup_get() returns sup and block 0
\* deserializes at offset 0 to sup; no block other than block 0 is modified.
C29_SupPutThenGet ==
    [][SupPutStep =>
          /\ sup_get(superblock') = res'.arg
          /\ StoredSB(device') = res'.arg
          /\ device'.nblocks = device.nblocks
          /\ \A i \in OtherBlocks(device) : device'.blocks[i] = device.blocks[i]]_vars

\* sup_put has replaced the superblock that mkfs wrote with one of another
\* geometry
C29_SuperblockReplaced ==
    /\ res.op = "sup_put" /\ res.st = "ok"
    /\ sup_get(superblock) = res.arg
    /\ StoredSB(device) = res.arg
    /\ res.arg.nblocks # device.nblocks
    /\ OtherBlocks(device) # {}

-----------------------------------------------------------------------------
(* Properties of the bound on data block indices *)

\* a step that is a call of b_zero or b_free with an index that is no data
\* block
PastDataStep ==
    /\ res'.op \in {"b_zero", "b_free"}
    /\ res'.arg >= superblock.ndatablocks

\* b_zero and b_free refuse the index and change nothing; b_alloc returns
\* the index of a data block
DataBound ==
    /\ PastDataStep => (res'.st = "DataIndexOutOfBounds" /\ device' = device)
    /\ (res'.op = "b_alloc" /\ res'.st = "ok") => res'.val < superblock.ndatablocks

\* C30: for every superblock accepted by sb_valid, including one with
\* ndatablocks == 0, b_zero(i) and b_free(i) fail with DataIndexOutOfBounds
\* for every i >= ndatablocks without modifying any block, and b_alloc never
\* returns an index >= ndatablocks; the bound check ndatablocks - 1 does not
\* underflow into accepting such an index.
C30_DataBound == [][DataBound]_vars

\* the same for superblocks with data blocks
C30_DataBoundWithData == [][superblock.ndatablocks > 0 => DataBound]_vars

\* b_zero has been refused for the index ndatablocks, on a file system with
\* data blocks
C30_PastLastRefused ==
    /\ res.op = "b_zero" /\ res.st = "DataIndexOutOfBounds"
    /\ superblock.ndatablocks > 0
    /\ res.arg = superblock.ndatablocks

\* b_zero has zeroed a block, or stopped the program, on a file system
\* without data blocks
C30_NoDataAccepted ==
    /\ res.op = "b_zero" /\ res.st \in {"ok", "panic"}
    /\ superblock.ndatablocks = 0

-----------------------------------------------------------------------------
(* Properties of i_free's failures *)

\* what i_free(i) would return now
FreeAgain(dev, i) ==
    i_free(dev, sup_get(superblock), inode_start, nb_inodes_block, overflow_checks, i)

\* a step of i_free that has to fail fails with the right error and changes
\* nothing
FreeRefused ==
    /\ (res'.op = "i_free" /\ res'.arg >= superblock.ninodes)
       => (res'.st = "InodeIndexOutOfBounds" /\ device' = device)
    /\ (res'.op = "i_free" /\ res'.arg < superblock.ninodes
                           /\ FtOf(device, res'.arg) = "TFree")
       => (res'.st = "InodeAlreadyFree" /\ device' = device)

\* after a successful i_free of an inode without links, i_free of it fails
\* with InodeAlreadyFree
FreedTwice ==
    (res'.op = "i_free" /\ res'.st = "ok" /\ res'.arg < superblock.ninodes
                        /\ IGet(device, res'.arg).st = "ok"
                        /\ IGet(device, res'.arg).val.nlink = 0)
       => FreeAgain(device', res'.arg).st = "InodeAlreadyFree"

\* C31: i_free(i) fails with InodeIndexOutOfBounds when i >= ninodes and
\* with InodeAlreadyFree when inode i is Free, in both cases leaving all
\* inodes and the bitmap unchanged; hence a successful i_free(i) of an inode
\* with nlink == 0 followed by i_free(i) fails with InodeAlreadyFree.
C31_FreeRefused == [][FreeRefused /\ FreedTwice]_vars

\* the same for superblocks with inodes
C31_FreeRefusedWithInodes ==
    [][superblock.ninodes > 0 => (FreeRefused /\ FreedTwice)]_vars

\* i_free has freed a file of two blocks without links
C31_FileFreed ==
    /\ res.op = "i_free" /\ res.st = "ok"
    /\ superblock.ninodes > 0
    /\ FtOf(device, res.arg) = "TFree"
    /\ FreeAgain(device, res.arg).st = "InodeAlreadyFree"

\* i_free has refused the inode number ninodes
C31_PastLastRefused ==
    /\ res.op = "i_free" /\ res.st = "InodeIndexOutOfBounds"
    /\ superblock.ninodes > 0
    /\ res.arg = superblock.ninodes

\* i_free has refused a Free inode
C31_FreeOfFreeRefused ==
    /\ res.op = "i_free" /\ res.st = "InodeAlreadyFree"
    /\ FtOf(device, res.arg) = "TFree"

-----------------------------------------------------------------------------
(* Properties of i_read over a missing block *)

\* the number of bytes i_read is asked for
Wanted(inode, buf, off, n) == Min3(n, Len(buf), inode.size - off)

\* the indices of the zero entries of direct_blocks that a read of inode
\* from off reaches
HolesReached(sb, inode, buf, off, n) ==
    { k \in 0..(CeilDiv(inode.size, sb.block_size) - 1) :
        /\ inode.direct_blocks[k] = 0
        /\ (k + 1) * sb.block_size > off
        /\ k * sb.block_size < off + Wanted(inode, buf, off, n) }

\* res is an i_read from inside a file that reaches a zero entry
ReadOverHole ==
    /\ res.op = "i_read"
    /\ res.arg.off < res.arg.inode.size
    /\ HolesReached(superblock, res.arg.inode, res.arg.buf, res.arg.off, res.arg.n) # {}

\* the read has ended at the zero entry k: the bytes before k * block_size
\* are in buf and the rest of buf is as it was
EndsAtHole(k) ==
    LET count == Max(k * superblock.block_size - res.arg.off, 0)
    IN /\ res.st = "ok"
       /\ res.val.count = count
       /\ \A j \in 1..Len(res.arg.buf) :
             res.val.buf[j] = IF j <= count
                              THEN FileByte(device, superblock, res.arg.inode,
                                            res.arg.off + j - 1)
                              ELSE res.arg.buf[j]

\* C32: when i_read meets a zero entry in direct_blocks at an index
\* k < ceil(size / block_size) that the requested range reaches, the read
\* terminates there: the returned count covers only the bytes before
\* logical offset k * block_size and no byte of any later block is copied
\* into buf.
C32_ReadEndsAtHole ==
    ReadOverHole =>
        EndsAtHole(Min(HolesReached(superblock, res.arg.inode, res.arg.buf,
                                    res.arg.off, res.arg.n)))

\* the same for reads from offset 0 where the zero entry is the last block
\* of the file
C32_ReadEndsAtLastHole ==
    (ReadOverHole /\ res.arg.off = 0
        /\ HolesReached(superblock, res.arg.inode, res.arg.buf, res.arg.off, res.arg.n)
             = { CeilDiv(res.arg.inode.size, superblock.block_size) - 1 })
    => EndsAtHole(CeilDiv(res.arg.inode.size, superblock.block_size) - 1)

\* a read has passed over a zero entry and copied bytes of the next block
C32_HoleSkipped ==
    /\ ReadOverHole /\ res.st = "ok"
    /\ res.arg.inode.direct_blocks[0] = 0
    /\ res.arg.off = 0
    /\ res.val.count > 0

\* a read of a file of two blocks has ended at its second block, a zero entry
C32_EndedAtSecondBlock ==
    /\ ReadOverHole /\ res.st = "ok"
    /\ res.arg.inode.direct_blocks[0] # 0
    /\ res.arg.off = 0
    /\ res.val.count = superblock.block_size

-----------------------------------------------------------------------------
(* Properties of what i_write leaves alone *)

\* the byte that i_read returns for position p of inode
ReadByte(dev, sb, inode, p) == i_read(dev, sb, inode, Zeros(1), p, 1).val.buf[1]

\* the blocks that hold the content of the inodes in use other than inum
BlocksOfOthers(dev, sb, inum) ==
    { BlockAt(dev, pl) : pl \in { ql \in OwnedPlaces(dev, sb) : ql[1] # inum } } \ {0}

\* a successful step of i_write leaves the bytes of the file outside
\* [off, off + n) and the blocks of the other inodes as they were
WriteFrame ==
    (res'.op = "i_write" /\ res'.st = "ok") =>
        /\ \A p \in 0..(res'.arg.inode.size - 1) :
              (p < res'.arg.off \/ p >= res'.arg.off + res'.arg.n) =>
                  ReadByte(device', superblock, res'.val, p)
                      = ReadByte(device, superblock, res'.arg.inode, p)
        /\ \A b \in BlocksOfOthers(device, superblock, res'.arg.inode.inum) :
              device'.blocks[b] = device.blocks[b]

\* C33: a successful i_write(inode, buf, off, n) changes only the logical
\* bytes in [off, off + n) of that inode: every byte of the inode at a
\* logical position p < old size with p outside [off, off + n) reads back
\* unchanged, and the data blocks of every other inode are unchanged.
C33_WriteFrame == [][WriteFrame]_vars

\* the same when every inode lies in the inode region
C33_WriteFrameInRegion == [][InodesInRegion(superblock) => WriteFrame]_vars

\* a write has appended a block to a file of one block, while the root
\* directory holds a block
C33_AppendedBesideDirectory ==
    /\ res.op = "i_write" /\ res.st = "ok"
    /\ InodesInRegion(superblock)
    /\ res.arg.inode.size > 0
    /\ BlocksOfOthers(device, superblock, res.arg.inode.inum) # {}

\* a write at the start of a file has left bytes of the file after it
C33_WrittenAtStart ==
    /\ res.op = "i_write" /\ res.st = "ok"
    /\ res.arg.off = 0
    /\ res.arg.n < res.arg.inode.size

\* a write from the last byte of a file has left bytes of the file before it
C33_WrittenAtEnd ==
    /\ res.op = "i_write" /\ res.st = "ok"
    /\ res.arg.off > 0
    /\ res.arg.off < res.arg.inode.size

-----------------------------------------------------------------------------
(* Properties of the read-only operations *)

ReadOnlyOps == {"b_get", "sup_get", "i_get", "dirlookup", "i_read"}

\* C34: the read-only operations b_get, sup_get, i_get, dirlookup and i_read
\* never allocate and never modify state: after any of them, whether it
\* succeeds or fails, the superblock, the bitmap, all on-disk inodes and all
\* data blocks are unchanged.
C34_ReadsChangeNothing ==
    [][res'.op \in ReadOnlyOps =>
          /\ device' = device
          /\ sup_get(superblock') = sup_get(superblock)]_vars

\* a read of the bytes of a file of two blocks has succeeded beside a
\* directory with entries
C34_FileRead ==
    /\ res.op = "i_read" /\ res.st = "ok"
    /\ res.val.count > superblock.block_size
    /\ \E d \in InUse(device, superblock) : d.ft = "TDir" /\ d.size > 0

\* a lookup has found a name
C34_NameFound ==
    /\ res.op = "dirlookup" /\ res.st = "ok"

\* reads have failed
C34_LookupFailed == res.op = "dirlookup" /\ res.st \notin {"ok", "panic"}

C34_GetFailed == res.op \in {"b_get", "i_get"} /\ res.st \notin {"ok", "panic"}

C34_ReadFailed == res.op = "i_read" /\ res.st \notin {"ok", "panic"}

-----------------------------------------------------------------------------
(* Properties of the place of an inode *)

\* the block that i_get(i) and i_put read and write for the inode number i
BlockOfInode(i) == inode_start + (i \div nb_inodes_block)

\* i_put of ino leaves the bitmap and the data blocks of dev as they are
PutKeepsBlocks(dev, sb, ino) ==
    LET put == i_put(dev, inode_start, nb_inodes_block, ino)
    IN \A b \in sb.bmapstart..(sb.nblocks - 1) : put.dev.blocks[b] = dev.blocks[b]

\* every inode number has its block in the inode region, and i_put on an
\* inode number leaves the bitmap and the data blocks as they are
InodePlaces ==
    /\ \A i \in 0..(superblock.ninodes - 1) :
          /\ BlockOfInode(i) >= superblock.inodestart
          /\ BlockOfInode(i) < superblock.bmapstart
    /\ \A ino \in { p \in PutInodes(superblock) : p.inum < superblock.ninodes } :
          PutKeepsBlocks(device, superblock, ino)

\* C35: for every superblock accepted by sb_valid and every inode number
\* i < ninodes, the block that i_get(i) and i_put read and write,
\* inodestart + i / (block_size / INODE_SIZE), lies inside the inode region
\* [inodestart, bmapstart); so i_put on a valid inode number never
\* overwrites a bitmap or data block, also when block_size is not a multiple
\* of INODE_SIZE.
C35_InodePlaces == InodePlaces

\* the same when block_size is a multiple of the size of an inode
C35_InodePlacesOfMultiple ==
    superblock.block_size % DINODE_SIZE = 0 => InodePlaces

\* i_put has written the last inode of a file system whose blocks hold
\* whole inodes only
C35_LastInodePut ==
    /\ res.op = "i_put" /\ res.st = "ok"
    /\ superblock.block_size % DINODE_SIZE = 0
    /\ res.arg.inum = superblock.ninodes - 1

\* i_put has written an inode into the first block of the bitmap
C35_BitmapOverwritten ==
    /\ res.op = "i_put" /\ res.st = "ok"
    /\ res.arg.inum < superblock.ninodes
    /\ BlockOfInode(res.arg.inum) = superblock.bmapstart

-----------------------------------------------------------------------------
(* Properties of the cached place of the inodes *)

\* the cached inode_start and inodes per block are those of sb
CacheAgrees(sb) ==
    /\ inode_start = sb.inodestart
    /\ nb_inodes_block = sb.block_size \div DINODE_SIZE

\* C36: after any sequence of operations on an inode-layer file system,
\* including sup_put with a different valid superblock, the block and
\* offset that i_get and i_put use for inode i are those computed from the
\* current sup_get(): block inodestart + i / IPB with
\* IPB = block_size / INODE_SIZE; the layer's cached inode_start and
\* inodes-per-block never disagree with the cached superblock.
C36_CacheAgrees ==
    /\ CacheAgrees(sup_get(superblock))
    /\ \A i \in 0..(superblock.ninodes - 1) :
          BlockOfInode(i) = sup_get(superblock).inodestart
                              + (i \div (sup_get(superblock).block_size \div DINODE_SIZE))

\* every step but a sup_put that moves the inode region or changes the
\* number of inodes in a block keeps the cache in agreement
C36_CacheKeptAgreeing ==
    [][(CacheAgrees(sup_get(superblock))
          /\ ~(res'.op = "sup_put" /\ ~CacheAgrees(res'.arg)))
       => CacheAgrees(sup_get(superblock'))]_vars

\* sup_put has put a superblock whose inode region starts elsewhere
C36_RegionMoved ==
    /\ res.op = "sup_put" /\ res.st = "ok"
    /\ sup_get(superblock).inodestart # inode_start

\* i_alloc has succeeded after sup_put of the superblock of mkfs
C36_SameSuperblockPut ==
    /\ res.op = "i_alloc" /\ res.st = "ok"
    /\ CacheAgrees(sup_get(superblock))
    /\ StoredSB(device) = SBTwoInodeBlocks

-----------------------------------------------------------------------------
(* Properties of the blocks listed in the inodes *)

\* the block listed at a place is a data block whose bitmap bit is 1
ListedAllocated(dev, sb, pl) ==
    LET b == BlockAt(dev, pl)
    IN /\ b >= sb.datastart
       /\ b < sb.datastart + sb.ndatablocks
       /\ BitmapBit(dev, sb, b - sb.datastart) = 1

BlocksAllocated(dev, sb) ==
    \A pl \in OwnedPlaces(dev, sb) :
        BlockAt(dev, pl) # 0 => ListedAllocated(dev, sb, pl)

\* C37: starting from mkfs, after any sequence of successful i_alloc,
\* i_write, dirlink, i_trunc and i_free calls in which every call is given
\* the inode's current value, every non-zero direct_blocks[k] with
\* k < ceil(size / block_size) of every non-Free on-disk inode refers to a
\* data block inside [datastart, datastart + ndatablocks) whose bitmap bit
\* is 1.
C37_BlocksAllocated == BlocksAllocated(device, superblock)

\* the same when every inode lies in the inode region
C37_BlocksAllocatedInRegion ==
    InodesInRegion(superblock) => BlocksAllocated(device, superblock)

\* i_write has appended a block to a file, and the block is allocated
C37_AppendedBlockSet ==
    /\ InodesInRegion(superblock)
    /\ res.op = "i_write" /\ res.st = "ok"
    /\ <<res.arg.inode.inum, NDIRECT - 1>> \in OwnedPlaces(device, superblock)
    /\ ListedAllocated(device, superblock, <<res.arg.inode.inum, NDIRECT - 1>>)

\* dirlink has succeeded, and the block it gave the directory is free in
\* the bitmap
C37_ListedBlockFree ==
    /\ res.op = "dirlink" /\ res.st = "ok"
    /\ <<res.arg.inode.inum, 0>> \in OwnedPlaces(device, superblock)
    /\ BlockAt(device, <<res.arg.inode.inum, 0>>) # 0
    /\ ~ListedAllocated(device, superblock, <<res.arg.inode.inum, 0>>)

-----------------------------------------------------------------------------
(* Properties of the allocated blocks *)

\* the data blocks, by index, listed at the places of the inodes in use
Referenced(dev, sb) ==
    { BlockAt(dev, pl) - sb.datastart : pl \in OwnedPlaces(dev, sb) }

\* the data blocks, by index, whose bitmap bit is 1 and that no inode in use
\* lists among its first ceil(size / block_size) direct blocks
Leaked(dev, sb) ==
    { b \in 0..(sb.ndatablocks - 1) : BitmapBit(dev, sb, b) = 1 } \ Referenced(dev, sb)

\* the number of direct blocks an inode lists
Listed(inode) == Cardinality({ k \in 0..(NDIRECT - 1) : inode.direct_blocks[k] # 0 })

\* res is a successful i_write past the last block of the inode
GrowingWrite ==
    /\ WriteOk
    /\ res.arg.off + res.arg.n
         > CeilDiv(res.arg.inode.size, superblock.block_size) * superblock.block_size

\* a successful growing i_write has listed the blocks that were missing
ExactGrowth ==
    GrowingWrite =>
        Listed(res.val) - Listed(res.arg.inode)
          = CeilDiv(res.arg.off + res.arg.n, superblock.block_size)
              - CeilDiv(res.arg.inode.size, superblock.block_size)

\* C38: no data block is leaked: starting from mkfs, after any sequence of
\* successful i_alloc, i_write, dirlink, i_trunc and i_free calls (with no
\* direct b_alloc by the caller), every data block whose bitmap bit is 1 is
\* referenced by some direct_blocks[k] with k < ceil(size / block_size) of
\* a non-Free inode; a growing i_write allocates exactly
\* ceil((off + n) / block_size) - ceil(old size / block_size) blocks.
C38_NoLeak ==
    /\ Leaked(device, superblock) = {}
    /\ ExactGrowth

\* the same when every inode lies in the inode region
C38_NoLeakInRegion ==
    InodesInRegion(superblock) => (Leaked(device, superblock) = {} /\ ExactGrowth)

\* every data block is allocated, and each is listed by an inode in use
C38_AllBlocksReferenced ==
    /\ InodesInRegion(superblock)
    /\ FreeBlocks(device, superblock) = {}
    /\ Leaked(device, superblock) = {}

\* i_alloc has succeeded and a block that no inode lists is allocated
C38_LeakedAfterAlloc ==
    /\ res.op = "i_alloc" /\ res.st = "ok"
    /\ Leaked(device, superblock) # {}

\* an allowed i_write has allocated a block more than the file was missing
\* and has aborted
C38_AllocatedBeforePanic ==
    /\ WriteAllowed /\ res.st = "panic"
    /\ InodesInRegion(superblock)
    /\ Leaked(device, superblock) # {}

-----------------------------------------------------------------------------
(* Properties of the growth step of i_write *)

\* the blocks the growth step of the i_write of res allocates, and the
\* blocks the file is missing
BlocksAdded ==
    CeilDiv(res.arg.off + res.arg.n - res.arg.inode.size, superblock.block_size)

BlocksMissing ==
    CeilDiv(res.arg.off + res.arg.n, superblock.block_size)
      - CeilDiv(res.arg.inode.size, superblock.block_size)

\* C39: for every inode with size <= NDIRECT * block_size and every call
\* i_write(inode, buf, off, n) with off <= size, buf.len() >= n and
\* off + n <= NDIRECT * block_size, the growth step only assigns
\* direct_blocks at indices < NDIRECT: the call never aborts with an
\* out-of-range index into direct_blocks.
C39_WriteNeverAborts ==
    (WriteAllowed /\ res.arg.inode.size <= NDIRECT * superblock.block_size)
        => res.st # "panic"

\* the same for the writes whose growth step adds the blocks that are missing
C39_ExactWriteNeverAborts ==
    (WriteAllowed /\ res.arg.inode.size <= NDIRECT * superblock.block_size
       /\ BlocksAdded = BlocksMissing)
        => res.st # "panic"

\* an allowed write has grown a file of one block to NDIRECT blocks
C39_GrownToLastBlock ==
    /\ WriteAllowed /\ res.st = "ok"
    /\ res.arg.inode.size > 0
    /\ BlocksAdded = BlocksMissing
    /\ res.val.direct_blocks[NDIRECT - 1] # 0
    /\ res.arg.inode.direct_blocks[NDIRECT - 1] = 0

\* an allowed write has aborted in the growth step: it adds more blocks
\* than the file is missing, to more than NDIRECT
C39_AbortedInGrowth ==
    /\ WriteAllowed /\ res.st = "panic"
    /\ BlocksAdded > BlocksMissing
    /\ CeilDiv(res.arg.inode.size, superblock.block_size) + BlocksAdded > NDIRECT

-----------------------------------------------------------------------------
(* Properties of the entries of a directory *)

\* the directory of inode i as i_get returns it
DirOf(dev, i) == IGet(dev, i).val

\* no two entries of the directory carry the same name
NoNameTwice(dev, sb, inode) ==
    \A sl \in Occupied(dev, sb, inode), tl \in Occupied(dev, sb, inode) :
        sl # tl => get_name_str(EntryAt(dev, inode, sl)) # get_name_str(EntryAt(dev, inode, tl))

\* the number of entries of the directory
NbEntries(dev, sb, inode) == Cardinality(Occupied(dev, sb, inode))

\* the step is a successful dirlink on inode i
LinksInto(i) == LinkStep /\ res'.arg.inode.inum = i

\* across the step, the directory of inode i gains one entry if the step is
\* a successful dirlink on it and none otherwise, and holds no name twice
EntriesFollowLinks(i) ==
    /\ NoNameTwice(device', superblock, DirOf(device', i))
    /\ NbEntries(device', superblock, DirOf(device', i))
         = NbEntries(device, superblock, DirOf(device, i))
             + (IF LinksInto(i) THEN 1 ELSE 0)

\* C40: starting from an empty directory, after any sequence of dirlink
\* calls on it (successful or failing), no two non-empty entries within the
\* directory's size carry the same name, and the number of non-empty
\* entries equals the number of successful dirlink calls.
C40_EntriesFollowLinks ==
    [][\A i \in 1..2 : EntriesFollowLinks(i)]_vars

\* the same when every inode lies in the inode region
C40_EntriesFollowLinksInRegion ==
    [][InodesInRegion(superblock) => \A i \in 1..2 : EntriesFollowLinks(i)]_vars

\* a third name has been linked in the directory, in its second block
C40_ThirdNameLinked ==
    /\ LinkedOk
    /\ InodesInRegion(superblock)
    /\ NbEntries(device, superblock, DirOf(device, res.arg.inode.inum)) = 3
    /\ NoNameTwice(device, superblock, DirOf(device, res.arg.inode.inum))

\* a name of the directory has been refused, and the directory holds its
\* two entries
C40_SecondNameRefused ==
    /\ res.op = "dirlink" /\ res.st = "InvalidEntryName"
    /\ InodesInRegion(superblock)
    /\ NameAccepted(res.arg.name)
    /\ NbEntries(device, superblock, DirOf(device, res.arg.inode.inum)) = 2

\* dirlink has succeeded and the directory holds a name twice
C40_NameTwice ==
    /\ LinkedOk
    /\ ~NoNameTwice(device, superblock, DirOf(device, res.arg.inode.inum))

=============================================================================
